---- MODULE Spec2Model ----
(***************************************************************************)
(* Population-game task allocation (MultiRobotTaskAlloc).                  *)
(*                                                                         *)
(* The module holds one state machine per component of the repository:     *)
(*   SpecState     StateManager + SupervisorController.process_robot_messages *)
(*   SpecClock     PoissonClock                                            *)
(*   SpecRevision  RevisionProtocol / RobotController.revision_protocol    *)
(*   SpecEnv       EnvironmentModel                                        *)
(*   SpecPayoff    PayoffMechanism / RobotController.payoff                *)
(*   SpecAllPayoffs  PayoffMechanism.compute_all_payoffs                   *)
(*   SpecSupervisor  SupervisorController.run (data_logger.py)             *)
(*   SpecIntake      the same loop fed with unchecked reports              *)
(*   SpecReceive     RobotController.receive_state_info                    *)
(*   SpecAgent       RobotController.run                                   *)
(*   SpecSnapshot    EnvironmentModel.get_resources / get_growth_rates     *)
(*   SpecDecision    DecisionMaker                                         *)
(*   SpecWebots      SupervisorController (supervisor_controller.py)       *)
(*   SpecConsumption the three consumption functions                       *)
(*   SpecWire        Message (communication.py)                            *)
(*   SpecTwoRuns     two runs of PoissonClock and select_task on one draw stream*)
(*   SpecTransit     RobotController.run, unending, with fairness          *)
(*   SpecMesa        ResourceModel and RobotAgent (marta_mesa)             *)
(*   SpecTrash       SupervisorController trash objects and volume q       *)
(*   SpecCollect     SupervisorController.run with simulate_collection     *)
(*   SpecFsm         FiniteStateMachine                                    *)
(*   SpecDecisionCalls DecisionMaker with initialize_task called directly  *)
(* A component's specification moves only its own variables; the other     *)
(* components stay in their constructed state.                             *)
(*                                                                         *)
(* Real numbers are modelled on an integer grid; a probability or a        *)
(* population share is a numerator over an explicit denominator.           *)
(***************************************************************************)
EXTENDS Integers, Sequences, FiniteSets, TLC

VARIABLES
    robot_tasks,      \* StateManager.robot_tasks : robot_id -> task_id
    robot_active,     \* StateManager.robot_active : robot_id -> bool
    rx_queue,         \* the supervisor receiver's packet queue (arrival order)
    drained_dup       \* history: the step into this state was a
                      \* process_robot_messages call that read two task
                      \* changes of one known robot

smVars == <<robot_tasks, robot_active, rx_queue, drained_dup>>

VARIABLES
    next_tick_time,   \* PoissonClock.next_tick_time
    total_ticks,      \* PoissonClock.total_ticks
    current_time,     \* the simulation time the robot loop polls the clock with
    tick_ret          \* what should_tick returned at current_time: "True",
                      \* "False", or "none" (not polled since time moved)

clockVars == <<next_tick_time, total_ticks, current_time, tick_ret>>

VARIABLES
    rho,              \* RevisionProtocol.rho, a fraction [num, den]
    current_task,     \* the revising robot's task (current_task / current_patch)
    payoffs,          \* the payoff vector the revision step is given
    probs,            \* what compute_switch_probabilities returned
    rc_probs,         \* RobotController.revision_protocol: switch_probs and
                      \* stay_prob as it computed them
    select_ret        \* what the last select_task, or the draw of
                      \* RobotController.revision_protocol, returned

revVars == <<rho, current_task, payoffs, probs, rc_probs, select_ret>>

VARIABLES
    q,                \* EnvironmentModel.q, resource level per task
    w,                \* EnvironmentModel.w, growth rate per task
    env_call          \* the last EnvironmentModel call: its name, the dt it was
                      \* given, whether it raised, and (history) whether the
                      \* Euler step went below 0 before np.maximum

envVars == <<q, w, env_call>>

VARIABLES
    nu,               \* PayoffMechanism.nu / robot_controller.NU
    gamma_star,       \* PayoffMechanism.gamma_star: <<>> is None, <<g>> is g
    x_star,           \* PayoffMechanism.x_star: <<>> is None, <<x>> is x
    payoff_ret        \* the last payoff call: which implementation, and what
                      \* it returned or raised

payVars == <<nu, gamma_star, x_star, payoff_ret>>

VARIABLES
    sup_status,          \* SupervisorController: "constructed", "running" in the
                         \* loop of run, or the exception that ended run
    sup_time,            \* SupervisorController.current_time, in ms
    last_broadcast_time, \* SupervisorController.last_broadcast_time, in ms
    experiment_config,   \* SupervisorController.experiment_config
    sup_x,               \* the local x of run: what the last pass handed to
                         \* env_model.update
    emitted              \* the packets the last step gave to emitter.send

supVars == <<sup_status, sup_time, last_broadcast_time, experiment_config,
             sup_x, emitted>>

VARIABLES
    agent_rx,            \* the robot receiver's packet queue
    agent_q,             \* RobotController.q, the cached trash volumes
    agent_x,             \* RobotController.x, the cached distribution
    rx_drained           \* history: the packets the last receive_state_info
                         \* took and rejected

rxVars == <<agent_rx, agent_q, agent_x, rx_drained>>

VARIABLES
    current_patch,       \* RobotController.current_patch
    target_patch,        \* RobotController.target_patch
    robot_state,         \* RobotController.state
    trash_collected,     \* RobotController.trash_collected
    agent_time,          \* robot.getTime(), in loop steps
    last_revision_time,  \* RobotController.last_revision_time
    next_revision_time,  \* RobotController.next_revision_time
    agent_tx,            \* the last packet send_status gave to the emitter
    disabled,            \* history: the supervisor's last command read by
                         \* the robot was "disable"
    agent_did            \* history: what the last pass of the loop did, and
                         \* whether the robot was disabled throughout it

loopVars == <<current_patch, target_patch, robot_state, trash_collected,
              agent_time, last_revision_time, next_revision_time, agent_tx,
              disabled, agent_did>>

VARIABLES
    returned_q,          \* the list a get_resources call returned, as its
                         \* holder now sees it
    returned_w           \* the list a get_growth_rates call returned

snapVars == <<returned_q, returned_w>>

VARIABLES
    dm_robot_id,         \* DecisionMaker.robot_id
    dm_current_task,     \* DecisionMaker.current_task: <<>> is None
    dm_latest_q,         \* DecisionMaker.latest_q: <<>> is None
    dm_latest_x,         \* DecisionMaker.latest_x: <<>> is None
    dm_latest_w,         \* DecisionMaker.latest_w: <<>> is None
    dm_ret               \* the last DecisionMaker call and what it returned

dmVars == <<dm_robot_id, dm_current_task, dm_latest_q, dm_latest_x, dm_latest_w,
            dm_ret>>

VARIABLES
    robot_assignments,   \* supervisor_controller.py: self.robot_assignments
    ws_x,                \* supervisor_controller.py: self.x, numerators over
                         \* NUM_ROBOTS
    ws_rx,               \* supervisor_controller.py: the receiver's queue
    ws_statuses          \* history: status packets taken so far (0, or 1 for
                         \* "at least one")

wsVars == <<robot_assignments, ws_x, ws_rx, ws_statuses>>

VARIABLES
    cons_ret             \* the last consumption-rate call: implementation,
                         \* arguments, result

consVars == <<cons_ret>>

VARIABLES
    wire_msg,         \* the Message last built by a create_* method, or None
    wire_bytes,       \* what to_bytes returned for it, or None
    wire_back         \* what from_bytes made of those bytes, or that it raised

wireVars == <<wire_msg, wire_bytes, wire_back>>

VARIABLES
    rng,              \* the uniform draws np.random hands out, in order (the same in both runs)
    run_time,         \* the time the next clock poll is made with, in both runs
    run_a,            \* the first run: draws used, clock, last select_task result
    run_b             \* the second run

detVars == <<rng, run_time, run_a, run_b>>

VARIABLES
    mesa_task,        \* RobotAgent.current_task of every agent of the Mesa model
    mesa_x,           \* ResourceModel.x, numerators over num_robots
    mesa_q,           \* ResourceModel.q, followed as levels 0 .. MaxQ (MaxQ the clamp 1.0)
    mesa_report       \* history: the last report_task_change call and the x it left

mesaVars == <<mesa_task, mesa_x, mesa_q, mesa_report>>

VARIABLES
    ws_q,             \* SupervisorController.q (supervisor_controller.py), the trash volume per patch
    ws_trash,         \* len(self.trash_objects[i]) per patch
    ws_last           \* history: the last spawn / removal / collection call and what it removed

trashVars == <<ws_q, ws_trash, ws_last>>

VARIABLES
    fsm,              \* FiniteStateMachine (finite_state_machine.py): state, current_task, basket_count, target_position, detected_object
    fsm_last          \* history: the last call on the state machine

fsmVars == <<fsm, fsm_last>>

(***************************************************************************)
(* Bounds                                                                  *)
(***************************************************************************)
NumRobots == 2      \* StateManager(num_robots, ...)
NumTasks  == 2      \* StateManager(..., num_tasks), len(payoffs), len(q)
MaxQueue  == 2      \* packets waiting in the supervisor's receiver
MaxTime   == 5      \* simulation time runs 0 .. MaxTime
MaxInter  == 2      \* a sampled inter-arrival is 1 .. MaxInter
MaxPayoff == 5      \* a payoff is 0 .. MaxPayoff
MaxQ      == 2      \* a resource level is followed up to MaxQ
MaxSupTicks == 4    \* passes of the supervisor loop in a run
MaxDraws  == 3      \* uniform draws a run can use
UGrid     == 2      \* a uniform draw is k / UGrid, k in 0 .. UGrid - 1

Robots == 0 .. (NumRobots - 1)
Tasks  == 0 .. (NumTasks - 1)
Max2(a, b) == IF a >= b THEN a ELSE b

RECURSIVE SumTo(_, _)
\* f[0] + ... + f[n-1]
SumTo(f, n) == IF n = 0 THEN 0 ELSE SumTo(f, n - 1) + f[n - 1]

(***************************************************************************)
(* shared/communication.py : the two robot -> supervisor message kinds     *)
(***************************************************************************)
TaskChangeMsg(r, k) == [type |-> "task_change", robot_id |-> r, new_task |-> k]
StatusMsg(r)        == [type |-> "robot_status", robot_id |-> r, new_task |-> -1]

\* the packets the receiver is given: every report of a known robot, one
\* report of an unknown robot, one status packet
RobotMessages ==
    {TaskChangeMsg(r, k) : r \in Robots, k \in Tasks}
        \cup {TaskChangeMsg(NumRobots, 0), StatusMsg(0)}

(***************************************************************************)
(* StateManager                                                            *)
(***************************************************************************)
\* __init__: robot i starts on task i % num_tasks, every robot active
InitRobotTasks  == [i \in Robots |-> i % NumTasks]
InitRobotActive == [i \in Robots |-> TRUE]

\* variant: no membership test, an unknown id lands on robot id % num_robots
update_robot_task_unguarded(tasks, robot_id, new_task) ==
    [tasks EXCEPT ![robot_id % NumRobots] = new_task]

\* update_robot_task: unknown robot ids are ignored
update_robot_task(tasks, robot_id, new_task) ==
    IF robot_id \in DOMAIN tasks
    THEN [tasks EXCEPT ![robot_id] = new_task]
    ELSE tasks

\* variant: the flag is written for every robot
set_robot_active_fleet(active, robot_id, is_active) ==
    [i \in DOMAIN active |-> is_active]

\* set_robot_active: only the flag changes
set_robot_active(active, robot_id, is_active) ==
    [active EXCEPT ![robot_id] = is_active]

\* task_counts[task_id] on a numpy array of length num_tasks: an index
\* -num_tasks .. -1 counts from the end, an index outside
\* -num_tasks .. num_tasks-1 raises IndexError
NumpyIndexValid(task_id) == task_id >= 0 - NumTasks /\ task_id < NumTasks
NumpyIndex(task_id) == IF task_id < 0 THEN task_id + NumTasks ELSE task_id

RECURSIVE CountLoop(_, _, _, _, _)
\* the for loop of get_population_state over robots i .. NumRobots-1
CountLoop(tasks, active, i, task_counts, total_active) ==
    IF i = NumRobots
    THEN [status |-> "ok", task_counts |-> task_counts,
          total_active |-> total_active]
    ELSE IF active[i]
         THEN IF NumpyIndexValid(tasks[i])
              THEN CountLoop(tasks, active, i + 1,
                             [task_counts EXCEPT ![NumpyIndex(tasks[i])] = @ + 1],
                             total_active + 1)
              ELSE [status |-> "IndexError", task_counts |-> task_counts,
                    total_active |-> total_active]
         ELSE CountLoop(tasks, active, i + 1, task_counts, total_active)

\* variant: divides by num_robots instead of the active count
get_population_state_by_fleet(tasks, active) ==
    LET c == CountLoop(tasks, active, 0, [k \in Tasks |-> 0], 0)
    IN  IF c.status # "ok" THEN [status |-> c.status]
        ELSE IF c.total_active = 0
        THEN [status |-> "ok", num |-> [k \in Tasks |-> 1], den |-> NumTasks]
        ELSE [status |-> "ok", num |-> c.task_counts, den |-> NumRobots]

\* variant: no uniform fallback, the zero counts are returned as they are
get_population_state_no_fallback(tasks, active) ==
    LET c == CountLoop(tasks, active, 0, [k \in Tasks |-> 0], 0)
    IN  IF c.status # "ok" THEN [status |-> c.status]
        ELSE [status |-> "ok", num |-> c.task_counts,
              den |-> Max2(c.total_active, 1)]

\* get_population_state: x_i = num[i] / den, or the exception it raises
get_population_state(tasks, active) ==
    LET c == CountLoop(tasks, active, 0, [k \in Tasks |-> 0], 0)
    IN  IF c.status # "ok" THEN [status |-> c.status]
        ELSE IF c.total_active = 0
        THEN [status |-> "ok", num |-> [k \in Tasks |-> 1], den |-> NumTasks]
        ELSE [status |-> "ok", num |-> c.task_counts, den |-> c.total_active]

(***************************************************************************)
(* SupervisorController.process_robot_messages                             *)
(***************************************************************************)
\* Message.from_bytes and the msg.data[...] reads: a packet that is not the
\* JSON of a message, or a task change without its fields, raises
Decodes(msg) == msg.type \in {"task_change", "robot_status"}

\* one decoded packet: a task change is applied, a status packet is only read
ApplyMessage(tasks, msg) ==
    IF msg.type = "task_change"
    THEN update_robot_task(tasks, msg.robot_id, msg.new_task)
    ELSE tasks

RECURSIVE DrainLoop(_, _)
\* while getQueueLength() > 0: getData, from_bytes, apply, nextPacket; an
\* exception leaves the loop with the packet still at the head of the queue
DrainLoop(tasks, queue) ==
    IF queue = <<>> THEN [tasks |-> tasks, queue |-> queue, status |-> "ok"]
    ELSE IF ~Decodes(Head(queue))
         THEN [tasks |-> tasks, queue |-> queue, status |-> "ValueError"]
         ELSE DrainLoop(ApplyMessage(tasks, Head(queue)), Tail(queue))

\* variant: `if` instead of `while`, one packet per call
process_robot_messages_one_packet(tasks, queue) ==
    IF queue = <<>> THEN [tasks |-> tasks, queue |-> queue, status |-> "ok"]
    ELSE IF ~Decodes(Head(queue))
         THEN [tasks |-> tasks, queue |-> queue, status |-> "ValueError"]
         ELSE [tasks |-> ApplyMessage(tasks, Head(queue)), queue |-> Tail(queue),
               status |-> "ok"]

\* the state the loop leaves: assignments, the receiver queue, and whether
\* the call returned or raised
process_robot_messages(tasks, queue) == DrainLoop(tasks, queue)

\* history only: some known robot has two task changes in the queue
HasTwoReports(queue) ==
    \E i, j \in 1 .. Len(queue) :
        /\ i < j
        /\ queue[i].type = "task_change" /\ queue[j].type = "task_change"
        /\ queue[i].robot_id = queue[j].robot_id
        /\ queue[i].robot_id \in Robots

(***************************************************************************)
(* Actions of SpecState                                                    *)
(***************************************************************************)
\* a robot's packet reaches the supervisor's receiver
PacketArrives ==
    /\ Len(rx_queue) < MaxQueue
    /\ \E m \in RobotMessages : rx_queue' = Append(rx_queue, m)
    /\ drained_dup' = FALSE
    /\ UNCHANGED <<robot_tasks, robot_active>>
    /\ UNCHANGED <<clockVars, revVars, envVars, payVars, supVars, rxVars, loopVars,
                    snapVars, dmVars, wsVars, consVars,
                    wireVars,
                    detVars,
                    mesaVars,
                    trashVars,
                    fsmVars>>

ProcessRobotMessages ==
    LET r == process_robot_messages(robot_tasks, rx_queue)
    IN  /\ robot_tasks' = r.tasks
        /\ rx_queue' = r.queue
        /\ drained_dup' = HasTwoReports(rx_queue)
        /\ UNCHANGED robot_active
        /\ UNCHANGED <<clockVars, revVars, envVars, payVars, supVars, rxVars, loopVars,
                    snapVars, dmVars, wsVars, consVars,
                    wireVars,
                    detVars,
                    mesaVars,
                    trashVars,
                    fsmVars>>

SetRobotActive ==
    /\ \E r \in Robots, b \in BOOLEAN :
          robot_active' = set_robot_active(robot_active, r, b)
    /\ drained_dup' = FALSE
    /\ UNCHANGED <<robot_tasks, rx_queue>>
    /\ UNCHANGED <<clockVars, revVars, envVars, payVars, supVars, rxVars, loopVars,
                    snapVars, dmVars, wsVars, consVars,
                    wireVars,
                    detVars,
                    mesaVars,
                    trashVars,
                    fsmVars>>

SMNext == PacketArrives \/ ProcessRobotMessages \/ SetRobotActive

(***************************************************************************)
(* PoissonClock (controllers/robot_controller/poisson_clock.py; the class   *)
(* in marta_mesa/agent.py is the same without total_ticks)                 *)
(***************************************************************************)
\* np.random.exponential(1/lambda): a positive amount of time
InterArrivals == 1 .. MaxInter

\* _generate_next_tick: next_tick_time += inter_arrival
generate_next_tick(next, inter_arrival) == next + inter_arrival

\* variant: the next tick is scheduled from the time of the poll
should_tick_from_now(next, ticks, t, inter_arrival) ==
    IF t >= next
    THEN [next |-> generate_next_tick(t, inter_arrival),
          ticks |-> ticks + 1, ret |-> "True"]
    ELSE [next |-> next, ticks |-> ticks, ret |-> "False"]

\* should_tick(current_time), with the draw it makes when it ticks
should_tick(next, ticks, t, inter_arrival) ==
    IF t >= next
    THEN [next |-> generate_next_tick(next, inter_arrival),
          ticks |-> ticks + 1, ret |-> "True"]
    ELSE [next |-> next, ticks |-> ticks, ret |-> "False"]

\* reset(current_time): next_tick_time = current_time, then one draw
reset(t, inter_arrival) == generate_next_tick(t, inter_arrival)

\* the simulation step between two polls
TimePasses ==
    /\ current_time < MaxTime
    /\ current_time' = current_time + 1
    /\ tick_ret' = "none"
    /\ UNCHANGED <<next_tick_time, total_ticks>>
    /\ UNCHANGED <<smVars, revVars, envVars, payVars, supVars, rxVars, loopVars,
                    snapVars, dmVars, wsVars, consVars,
                    wireVars,
                    detVars,
                    mesaVars,
                    trashVars,
                    fsmVars>>

ShouldTick ==
    \E d \in InterArrivals :
        LET r == should_tick(next_tick_time, total_ticks, current_time, d)
        IN  /\ next_tick_time' = r.next
            /\ total_ticks' = r.ticks
            /\ tick_ret' = r.ret
            /\ UNCHANGED current_time
            /\ UNCHANGED <<smVars, revVars, envVars, payVars, supVars, rxVars, loopVars,
                    snapVars, dmVars, wsVars, consVars,
                    wireVars,
                    detVars,
                    mesaVars,
                    trashVars,
                    fsmVars>>

Reset ==
    /\ \E d \in InterArrivals : next_tick_time' = reset(current_time, d)
    /\ tick_ret' = "none"
    /\ UNCHANGED <<total_ticks, current_time>>
    /\ UNCHANGED <<smVars, revVars, envVars, payVars, supVars, rxVars, loopVars,
                    snapVars, dmVars, wsVars, consVars,
                    wireVars,
                    detVars,
                    mesaVars,
                    trashVars,
                    fsmVars>>

ClockNext == TimePasses \/ ShouldTick \/ Reset

(***************************************************************************)
(* RevisionProtocol (models/revision_protocol.py) and the revision step of  *)
(* the Webots robot controller (robot_controller.py)                       *)
(***************************************************************************)
\* the rates a RevisionProtocol is constructed with: 1/2 (too large for the
\* payoff spread), 1/10, and Config.RHO = 1/600
Rhos == {[num |-> 1, den |-> 2], [num |-> 1, den |-> 10], [num |-> 1, den |-> 600]}

\* robot_controller.py: RHO = 1/600
RC_RHO == [num |-> 1, den |-> 600]

PayoffVectors == [Tasks -> 0 .. MaxPayoff]

\* no call made yet
NotCalled == [status |-> "none"]

\* variant: the absolute value
positive_part_abs(value) == IF value >= 0 THEN value ELSE 0 - value

\* variant: the difference itself
positive_part_raw(value) == value

\* positive_part: [x]_+ = max(0, x)
positive_part(value) == Max2(0, value)

\* the loop of compute_switch_probabilities: probs[j] for j # current_task,
\* probs[current_task] still 0; numerators over rate.den
SwitchNumerators(rate, cur, pay) ==
    [j \in Tasks |->
        IF j = cur THEN 0 ELSE rate.num * positive_part(pay[j] - pay[cur])]

\* variant: the switch probabilities divided by their total, as
\* RobotController.revision_protocol does
compute_switch_probabilities_renormalised(rate, cur, pay) ==
    LET sw    == SwitchNumerators(rate, cur, pay)
        total == SumTo(sw, NumTasks)
    IN  IF total > 0
        THEN [status |-> "ok", num |-> sw, den |-> total]
        ELSE [status |-> "ok", num |-> [sw EXCEPT ![cur] = rate.den],
              den |-> rate.den]

\* compute_switch_probabilities: the stay probability is 1 - np.sum(probs);
\* the two asserts raise AssertionError (exact arithmetic: the sum is 1)
compute_switch_probabilities(rate, cur, pay) ==
    LET sw   == SwitchNumerators(rate, cur, pay)
        stay == rate.den - SumTo(sw, NumTasks)
        p    == [sw EXCEPT ![cur] = stay]
    IN  IF SumTo(p, NumTasks) # rate.den THEN [status |-> "AssertionError"]
        ELSE IF \E j \in Tasks : p[j] < 0 THEN [status |-> "AssertionError"]
        ELSE [status |-> "ok", num |-> p, den |-> rate.den]

\* RobotController.revision_protocol up to the draw: switch_probs divided by
\* their total when it is > 0, stay_prob = 1 - sum(switch_probs); nothing is
\* asserted.  Numerators over den.
rc_revision_protocol(cur, pay) ==
    LET sw    == [j \in Tasks |->
                    IF j = cur THEN 0
                    ELSE RC_RHO.num * Max2(0, pay[j] - pay[cur])]
        total == SumTo(sw, NumTasks)
    IN  IF total > 0
        THEN [status |-> "ok", num |-> [sw EXCEPT ![cur] = total - total],
              den |-> total]
        ELSE [status |-> "ok", num |-> [sw EXCEPT ![cur] = RC_RHO.den],
              den |-> RC_RHO.den]

\* variant: np.random.choice without p, every task may be drawn
select_task_any(rate, cur, pay) ==
    LET p == compute_switch_probabilities(rate, cur, pay)
    IN  IF p.status # "ok" THEN {[status |-> p.status, task |-> cur]}
        ELSE {[status |-> "ok", task |-> j] : j \in Tasks}

\* select_task: np.random.choice(len(payoffs), p=probs) returns an index of
\* positive probability; an AssertionError of compute_switch_probabilities
\* leaves the call.  The set of outcomes.
select_task(rate, cur, pay) ==
    LET p == compute_switch_probabilities(rate, cur, pay)
    IN  IF p.status # "ok" THEN {[status |-> p.status, task |-> cur]}
        ELSE {[status |-> "ok", task |-> j] : j \in {k \in Tasks : p.num[k] > 0}}

\* RobotController.revision_protocol, the draw: rand < cumulative picks a
\* patch of positive switch probability, otherwise the current patch stays
revision_protocol_draw(cur, pay) ==
    LET p == rc_revision_protocol(cur, pay)
    IN  {[status |-> "ok", task |-> j] : j \in {k \in Tasks : p.num[k] > 0}}

ComputeSwitchProbabilities ==
    /\ probs' = compute_switch_probabilities(rho, current_task, payoffs)
    /\ UNCHANGED <<rho, current_task, payoffs, rc_probs, select_ret>>
    /\ UNCHANGED <<smVars, clockVars, envVars, payVars, supVars, rxVars, loopVars,
                    snapVars, dmVars, wsVars, consVars,
                    wireVars,
                    detVars,
                    mesaVars,
                    trashVars,
                    fsmVars>>

SelectTask ==
    /\ probs' = compute_switch_probabilities(rho, current_task, payoffs)
    /\ \E o \in select_task(rho, current_task, payoffs) :
          select_ret' = [impl |-> "RevisionProtocol", status |-> o.status,
                         task |-> o.task]
    /\ UNCHANGED <<rho, current_task, payoffs, rc_probs>>
    /\ UNCHANGED <<smVars, clockVars, envVars, payVars, supVars, rxVars, loopVars,
                    snapVars, dmVars, wsVars, consVars,
                    wireVars,
                    detVars,
                    mesaVars,
                    trashVars,
                    fsmVars>>

RCRevisionProtocol ==
    /\ rc_probs' = rc_revision_protocol(current_task, payoffs)
    /\ \E o \in revision_protocol_draw(current_task, payoffs) :
          select_ret' = [impl |-> "RobotController", status |-> o.status,
                         task |-> o.task]
    /\ UNCHANGED <<rho, current_task, payoffs, probs>>
    /\ UNCHANGED <<smVars, clockVars, envVars, payVars, supVars, rxVars, loopVars,
                    snapVars, dmVars, wsVars, consVars,
                    wireVars,
                    detVars,
                    mesaVars,
                    trashVars,
                    fsmVars>>

RevisionNext == ComputeSwitchProbabilities \/ SelectTask \/ RCRevisionProtocol

(***************************************************************************)
(* ConsumptionModel (models/consumption_model.py)                          *)
(***************************************************************************)
\* the integer part of R_i = 3.44: F never exceeds R_i
R_I == 3

\* compute_consumption: F = R * (e^(a q) - 1)/(e^(a q) + 1) * x^b, and 0 for
\* x <= 0.  On the integer grid the model keeps what is exact about F: it is
\* 0 for x <= 0 and for q = 0, it has the sign of q, and |F| <= R; any grid
\* value in that range may be the rate.  x_i is the numerator of the share.
compute_consumption(q_i, x_i) ==
    IF x_i <= 0 THEN {0}
    ELSE IF q_i = 0 THEN {0}
    ELSE IF q_i > 0 THEN 0 .. R_I
    ELSE (0 - R_I) .. 0

\* compute_all_consumption: one rate per task
compute_all_consumption(qs, x) ==
    LET lo == IF \E i \in Tasks : qs[i] < 0 THEN 0 - R_I ELSE 0
        hi == IF \E i \in Tasks : qs[i] > 0 THEN R_I ELSE 0
    IN  {F \in [Tasks -> lo .. hi] :
            \A i \in Tasks : F[i] \in compute_consumption(qs[i], x.num[i])}

\* a returned rate: a float, or the complex number Python's ** gives for a
\* negative base and a fractional exponent; zero says whether it equals 0
FloatRate(v) == [kind |-> "float", zero |-> (v = 0), value |-> v]
ComplexRate(is_zero) == [kind |-> "complex", zero |-> is_zero, value |-> 0]

\* R * saturating * x ** BETA for x > 0 on the grid: the sign of q, at most R
RateRange(qi) ==
    IF qi = 0 THEN {0} ELSE IF qi > 0 THEN 0 .. R_I ELSE (0 - R_I) .. 0

\* supervisor_controller.py consumption_rate: 0 for xi == 0 only; for
\* xi < 0, xi ** BETA is complex, and the product is 0 only when the
\* saturating factor is (qi = 0)
ws_consumption_rate(qi, xi) ==
    IF xi = 0 THEN {FloatRate(0)}
    ELSE IF xi < 0 THEN {ComplexRate(qi = 0)}
    ELSE {FloatRate(v) : v \in RateRange(qi)}

\* robot_controller.py consumption_rate: no test of xi; 0 ** BETA is 0.0
rc_consumption_rate(qi, xi) ==
    IF xi < 0 THEN {ComplexRate(qi = 0)}
    ELSE IF xi = 0 THEN {FloatRate(0)}
    ELSE {FloatRate(v) : v \in RateRange(qi)}

\* the arguments a consumption function is called with: a level, and the
\* numerator of a share (a share below 0 is no population state, the
\* functions take any float)
RateLevels == (0 - MaxQ) .. MaxQ
RateShares == -1 .. NumRobots

ComputeConsumption ==
    /\ \E qi \in RateLevels, xi \in RateShares :
         \E v \in compute_consumption(qi, xi) :
            cons_ret' = [impl |-> "ConsumptionModel", q_i |-> qi, x_i |-> xi,
                         ret |-> FloatRate(v)]
    /\ UNCHANGED <<smVars, clockVars, revVars, envVars, payVars, supVars, rxVars,
                    loopVars, snapVars, dmVars, wsVars,
                    wireVars,
                    detVars,
                    mesaVars,
                    trashVars,
                    fsmVars>>

WsConsumptionRate ==
    /\ \E qi \in RateLevels, xi \in RateShares :
         \E o \in ws_consumption_rate(qi, xi) :
            cons_ret' = [impl |-> "SupervisorController", q_i |-> qi, x_i |-> xi,
                         ret |-> o]
    /\ UNCHANGED <<smVars, clockVars, revVars, envVars, payVars, supVars, rxVars,
                    loopVars, snapVars, dmVars, wsVars,
                    wireVars,
                    detVars,
                    mesaVars,
                    trashVars,
                    fsmVars>>

RcConsumptionRate ==
    /\ \E qi \in RateLevels, xi \in RateShares :
         \E o \in rc_consumption_rate(qi, xi) :
            cons_ret' = [impl |-> "RobotController", q_i |-> qi, x_i |-> xi,
                         ret |-> o]
    /\ UNCHANGED <<smVars, clockVars, revVars, envVars, payVars, supVars, rxVars,
                    loopVars, snapVars, dmVars, wsVars,
                    wireVars,
                    detVars,
                    mesaVars,
                    trashVars,
                    fsmVars>>

ConsumptionNext == ComputeConsumption \/ WsConsumptionRate \/ RcConsumptionRate

(***************************************************************************)
(* EnvironmentModel (controllers/supervisor_controller/environment_model.py) *)
(***************************************************************************)
\* growth rates on the grid: Config.INITIAL_GROWTH_RATES is 1, a scenario may
\* set any rate, also a negative one
GrowthRates == {-1, 1}

\* the dt an update is called with (the supervisor passes timestep/1000 > 0;
\* the method takes any float)
TimeSteps == {-1, 0, 1}

\* the x an update is given: what get_population_state returns
PopulationStates ==
    {get_population_state(t, a) : t \in [Robots -> Tasks],
                                  a \in {InitRobotActive, [r \in Robots |-> FALSE]}}

\* variant: the Euler step without np.maximum(q, 0)
update_unclamped(qs, ws, F, dt) ==
    [i \in Tasks |-> qs[i] + (ws[i] - F[i]) * dt]

\* variant: the growth term is left out of the Euler step
update_without_growth(qs, ws, F, dt) ==
    [i \in Tasks |-> Max2(qs[i] + (0 - F[i]) * dt, 0)]

\* update: q += (w - F) * dt; q = np.maximum(q, 0)
update(qs, ws, F, dt) ==
    [i \in Tasks |-> Max2(qs[i] + (ws[i] - F[i]) * dt, 0)]

\* variant: the rate is written to every task
set_growth_rate_all(ws, task_id, new_rate) == [i \in DOMAIN ws |-> new_rate]

\* set_growth_rate: w[task_id] = new_rate
set_growth_rate(ws, task_id, new_rate) == [ws EXCEPT ![task_id] = new_rate]

NoCall == [op |-> "none", dt |-> 0, raised |-> FALSE, below_zero |-> FALSE]

\* SupervisorController.__init__: q = 0, w = INITIAL_GROWTH_RATES
EnvStartQ == [i \in Tasks |-> 0]
EnvStartW == [i \in Tasks |-> 1]

\* no list has been handed out
NotReturned == [held |-> FALSE]

\* variant: the array itself is handed out
get_resources_view(qs) == [held |-> TRUE, value |-> qs, shares_buffer |-> TRUE]

\* get_resources: self.q.tolist() builds a new list from the array
get_resources(qs) == [held |-> TRUE, value |-> qs, shares_buffer |-> FALSE]

\* get_growth_rates: self.w.tolist()
get_growth_rates(ws) == [held |-> TRUE, value |-> ws, shares_buffer |-> FALSE]

\* what the holder of a returned list sees once the model's array is buf: a
\* list that shares the array's buffer follows it, a new list does not
SeenBy(ret, buf) ==
    IF ret.held /\ ret.shares_buffer THEN [ret EXCEPT !.value = buf] ELSE ret

\* the model's array after the holder of a returned list has written to it
WrittenThrough(ret, buf) ==
    IF ret.held /\ ret.shares_buffer THEN ret.value ELSE buf

Update ==
    /\ \E x \in PopulationStates, dt \in TimeSteps :
         \E F \in compute_all_consumption(q, x) :
            /\ q' = update(q, w, F, dt)
            /\ env_call' = [op |-> "update", dt |-> dt, raised |-> FALSE,
                            below_zero |->
                                \E i \in Tasks : q[i] + (w[i] - F[i]) * dt < 0]
    /\ \A i \in Tasks : q'[i] <= MaxQ
    /\ UNCHANGED w
    /\ returned_q' = SeenBy(returned_q, q')
    /\ UNCHANGED returned_w
    /\ UNCHANGED <<smVars, clockVars, revVars, payVars, supVars, rxVars, loopVars,
                    dmVars, wsVars, consVars,
                    wireVars,
                    detVars,
                    mesaVars,
                    trashVars,
                    fsmVars>>

SetGrowthRate ==
    /\ \E i \in Tasks, rate \in GrowthRates :
          /\ w' = set_growth_rate(w, i, rate)
          /\ env_call' = [op |-> "set_growth_rate", dt |-> 0, raised |-> FALSE,
                          below_zero |-> FALSE, task_id |-> i, new_rate |-> rate]
    /\ UNCHANGED q
    /\ returned_w' = SeenBy(returned_w, w')
    /\ UNCHANGED returned_q
    /\ UNCHANGED <<smVars, clockVars, revVars, payVars, supVars, rxVars, loopVars,
                    dmVars, wsVars, consVars,
                    wireVars,
                    detVars,
                    mesaVars,
                    trashVars,
                    fsmVars>>

EnvNext == Update \/ SetGrowthRate


(***************************************************************************)
(* PayoffMechanism (models/payoff_mechanism.py) and RobotController.payoff  *)
(***************************************************************************)
\* Config.NU: "Payoff mechanism weight (0, 40, or 800)"
NuValues == {0, 40}

\* the cached (q, x, w) a payoff is computed from
PayoffQs == [Tasks -> {0, MaxQ}]
PayoffWs == {[i \in Tasks |-> 1], [i \in Tasks |-> -1]}

None == <<>>

\* variant: the model-based term with unit weight when nu is 0
compute_payoff_unit_weight(n, gamma, xs, task_id, qs, ws, F) ==
    IF n = 0
    THEN [status |-> "ok", value |-> qs[task_id] + ((0 - F) + ws[task_id])]
    ELSE IF gamma = None \/ xs = None
         THEN [status |-> "ValueError"]
         ELSE [status |-> "ok", value |-> qs[task_id] + n * ((0 - F) + ws[task_id])]

\* compute_payoff(task_id, q, x, w), F the consumption at the equilibrium
compute_payoff(n, gamma, xs, task_id, qs, ws, F) ==
    IF n = 0
    THEN [status |-> "ok", value |-> qs[task_id]]
    ELSE IF gamma = None \/ xs = None
         THEN [status |-> "ValueError"]
         ELSE [status |-> "ok", value |-> qs[task_id] + n * ((0 - F) + ws[task_id])]

\* the consumption compute_consumption can return for each of the first n
\* tasks, one vector per combination
RECURSIVE ConsumptionVectors(_, _, _)
ConsumptionVectors(gamma, x, n) ==
    IF n = 0
    THEN {[i \in {} |-> 0]}
    ELSE {[i \in 0 .. (n - 1) |-> IF i = n - 1 THEN f ELSE F[i]] :
            F \in ConsumptionVectors(gamma, x, n - 1),
            f \in compute_consumption(gamma, x[n - 1])}

\* compute_all_payoffs(q, x, w): [compute_payoff(i, q, x, w) for i in
\* range(len(q))], x the share numerators; the first raise leaves the call.
\* The set of outcomes (the rates F at the equilibrium are the only choice).
compute_all_payoffs(n, gamma, xs, qs, x, ws) ==
    LET Fs == IF n = 0 \/ gamma = None \/ xs = None
              THEN {[i \in Tasks |-> 0]}
              ELSE ConsumptionVectors(gamma[1], x, NumTasks)
        one(F, i) == compute_payoff(n, gamma, xs, i, qs, ws, F[i])
    IN  {IF \E i \in Tasks : one(F, i).status # "ok"
         THEN [status |-> "ValueError"]
         ELSE [status |-> "ok", value |-> [i \in Tasks |-> one(F, i).value]]
            : F \in Fs}

\* RobotController.payoff(patch_idx): gamma_star = max(self.q), no check
rc_payoff(n, patch_idx, qs, F) ==
    IF n = 0
    THEN [status |-> "ok", value |-> qs[patch_idx]]
    ELSE [status |-> "ok", value |-> qs[patch_idx] + n * ((0 - F) + 1)]

RECURSIVE MaxOf(_, _)
\* max(self.q) over q[0 .. n-1]
MaxOf(qs, n) == IF n = 1 THEN qs[0] ELSE Max2(MaxOf(qs, n - 1), qs[n - 1])

SetEquilibrium ==
    /\ \E g \in 0 .. MaxQ, xs \in PopulationStates :
            /\ gamma_star' = <<g>>
            /\ x_star' = <<xs>>
    /\ payoff_ret' = [impl |-> "none"]
    /\ UNCHANGED nu
    /\ UNCHANGED <<smVars, clockVars, revVars, envVars, supVars, rxVars, loopVars,
                    snapVars, dmVars, wsVars, consVars,
                    wireVars,
                    detVars,
                    mesaVars,
                    trashVars,
                    fsmVars>>

ComputePayoff ==
    /\ \E i \in Tasks, qs \in PayoffQs, x \in PopulationStates, ws \in PayoffWs :
         \E F \in (IF nu = 0 \/ gamma_star = None THEN {0}
                   ELSE compute_consumption(gamma_star[1], x.num[i])) :
            payoff_ret' =
                [impl |-> "PayoffMechanism", nu |-> nu,
                 equilibrium |-> (gamma_star # None /\ x_star # None),
                 q_i |-> qs[i],
                 ret |-> compute_payoff(nu, gamma_star, x_star, i, qs, ws, F)]
    /\ UNCHANGED <<nu, gamma_star, x_star>>
    /\ UNCHANGED <<smVars, clockVars, revVars, envVars, supVars, rxVars, loopVars,
                    snapVars, dmVars, wsVars, consVars,
                    wireVars,
                    detVars,
                    mesaVars,
                    trashVars,
                    fsmVars>>

RCPayoff ==
    /\ \E i \in Tasks, qs \in PayoffQs, x \in PopulationStates :
         \E F \in (IF nu = 0 THEN {0}
                   ELSE compute_consumption(MaxOf(qs, NumTasks), x.num[i])) :
            payoff_ret' =
                [impl |-> "RobotController", nu |-> nu,
                 equilibrium |-> FALSE,
                 q_i |-> qs[i],
                 ret |-> rc_payoff(nu, i, qs, F)]
    /\ UNCHANGED <<nu, gamma_star, x_star>>
    /\ UNCHANGED <<smVars, clockVars, revVars, envVars, supVars, rxVars, loopVars,
                    snapVars, dmVars, wsVars, consVars,
                    wireVars,
                    detVars,
                    mesaVars,
                    trashVars,
                    fsmVars>>

\* the x a compute_all_payoffs call is given here: every robot on one task
CrowdAt(j) == [i \in Tasks |-> IF i = j THEN NumRobots ELSE 0]

ComputeAllPayoffs ==
    /\ \E qs \in PayoffQs, j \in Tasks, ws \in PayoffWs :
         \E o \in compute_all_payoffs(nu, gamma_star, x_star, qs, CrowdAt(j), ws) :
            payoff_ret' =
                [impl |-> "compute_all_payoffs", nu |-> nu,
                 equilibrium |-> (gamma_star # None /\ x_star # None),
                 q |-> qs, x |-> CrowdAt(j), w |-> ws, ret |-> o]
    /\ UNCHANGED <<nu, gamma_star, x_star>>
    /\ UNCHANGED <<smVars, clockVars, revVars, envVars, supVars, rxVars, loopVars,
                    snapVars, dmVars, wsVars, consVars,
                    wireVars,
                    detVars,
                    mesaVars,
                    trashVars,
                    fsmVars>>

AllPayoffsNext == SetEquilibrium \/ ComputeAllPayoffs

PayoffNext == SetEquilibrium \/ ComputePayoff \/ RCPayoff

(***************************************************************************)
(* SupervisorController (the class in data_logger.py): the run loop         *)
(***************************************************************************)
\* Config.TIME_STEP, in ms: self.dt = timestep / 1000
SupDt == 32

\* self.broadcast_interval = 0.1 s, in ms
BroadcastInterval == 100

Abs(v) == IF v < 0 THEN 0 - v ELSE v

\* SupervisorBroadcast.create_state_message(q, x, time)
StateMsg(qs, x, t) == [type |-> "state_update", q |-> qs, x |-> x, time |-> t]

\* send_failure_command(robot_id, disable)
FailureCommand(robot_id, disable) ==
    [type |-> "robot_status", robot_id |-> robot_id,
     command |-> IF disable THEN "disable" ELSE "enable"]

\* set_experiment: no experiment, the surge of ExperimentConfig.experiment_1_surge
\* and the failures of experiment_2_failures.  The event times are scaled to
\* the first ticks of a run; the surge rate is 2 on the grid; as in the
\* source, num_failures is larger than the fleet.
ExperimentConfigs ==
    { [kind |-> "none"],
      [kind |-> "surge", surge_start |-> SupDt, surge_end |-> 3 * SupDt,
       surge_patch |-> 0, surge_rate |-> 2],
      [kind |-> "failures", failure_start |-> SupDt, failure_end |-> 3 * SupDt,
       num_failures |-> NumRobots + 1] }

RECURSIVE SetActiveLoop(_, _, _, _)
\* for i in range(num_failures): set_robot_active(i, flag)
SetActiveLoop(active, i, n, flag) ==
    IF i = n THEN active
    ELSE SetActiveLoop(set_robot_active(active, i, flag), i + 1, n, flag)

\* the failure commands of one event, in sending order
FailureCommands(n, disable) == [i \in 1 .. n |-> FailureCommand(i - 1, disable)]

\* handle_experiment_events at time t: the flags, the growth rates and the
\* packets sent
handle_experiment_events(cfg, t, active, ws) ==
    IF cfg.kind = "surge"
    THEN LET w1 == IF Abs(t - cfg.surge_start) < SupDt
                   THEN set_growth_rate(ws, cfg.surge_patch, cfg.surge_rate)
                   ELSE ws
             w2 == IF Abs(t - cfg.surge_end) < SupDt
                   THEN set_growth_rate(w1, cfg.surge_patch, EnvStartW[cfg.surge_patch])
                   ELSE w1
         IN  [active |-> active, w |-> w2, sent |-> <<>>]
    ELSE IF cfg.kind = "failures"
    THEN LET off  == Abs(t - cfg.failure_start) < SupDt
             on   == Abs(t - cfg.failure_end) < SupDt
             a1   == IF off THEN SetActiveLoop(active, 0, cfg.num_failures, FALSE)
                     ELSE active
             a2   == IF on THEN SetActiveLoop(a1, 0, cfg.num_failures, TRUE)
                     ELSE a1
         IN  [active |-> a2, w |-> ws,
              sent |-> (IF off THEN FailureCommands(cfg.num_failures, TRUE) ELSE <<>>)
                       \o (IF on THEN FailureCommands(cfg.num_failures, FALSE) ELSE <<>>)]
    ELSE [active |-> active, w |-> ws, sent |-> <<>>]

\* variant: a broadcast in every tick
broadcast_due_every_tick(t, last) == TRUE

\* run: self.current_time - self.last_broadcast_time >= self.broadcast_interval
broadcast_due(t, last) == t - last >= BroadcastInterval

\* the supervisor's resource levels are followed as 0 or 1 ("positive"): from
\* a positive level the consumption may empty the task or not, from 0 the
\* growth decides
FollowedLevel(qs) == [i \in Tasks |-> IF qs[i] > 0 THEN 1 ELSE 0]

\* env_model.update(x, dt) from levels qs: the levels it may leave (the
\* consumption rates F are the only choice), one tick being one grid step
UpdateOutcomes(qs, ws, x) ==
    {FollowedLevel(update(qs, ws, F, 1)) : F \in compute_all_consumption(qs, x)}

\* get_resources()
GetResources ==
    /\ returned_q' = get_resources(q)
    /\ UNCHANGED <<returned_w, envVars>>
    /\ UNCHANGED <<smVars, clockVars, revVars, payVars, supVars, rxVars, loopVars,
                    dmVars, wsVars, consVars,
                    wireVars,
                    detVars,
                    mesaVars,
                    trashVars,
                    fsmVars>>

\* get_growth_rates()
GetGrowthRates ==
    /\ returned_w' = get_growth_rates(w)
    /\ UNCHANGED <<returned_q, envVars>>
    /\ UNCHANGED <<smVars, clockVars, revVars, payVars, supVars, rxVars, loopVars,
                    dmVars, wsVars, consVars,
                    wireVars,
                    detVars,
                    mesaVars,
                    trashVars,
                    fsmVars>>

\* the caller of get_resources overwrites an entry of the list it was given
CallerWritesResources ==
    /\ returned_q.held
    /\ \E i \in Tasks :
          returned_q' = [returned_q EXCEPT
                            !.value[i] = 1 - FollowedLevel(returned_q.value)[i]]
    /\ q' = WrittenThrough(returned_q', q)
    /\ UNCHANGED <<w, env_call, returned_w>>
    /\ UNCHANGED <<smVars, clockVars, revVars, payVars, supVars, rxVars, loopVars,
                    dmVars, wsVars, consVars,
                    wireVars,
                    detVars,
                    mesaVars,
                    trashVars,
                    fsmVars>>

\* the caller of get_growth_rates overwrites an entry of its list
CallerWritesRates ==
    /\ returned_w.held
    /\ \E i \in Tasks :
          returned_w' = [returned_w EXCEPT !.value[i] = 0 - returned_w.value[i]]
    /\ w' = WrittenThrough(returned_w', w)
    /\ UNCHANGED <<q, env_call, returned_q>>
    /\ UNCHANGED <<smVars, clockVars, revVars, payVars, supVars, rxVars, loopVars,
                    dmVars, wsVars, consVars,
                    wireVars,
                    detVars,
                    mesaVars,
                    trashVars,
                    fsmVars>>

\* env_model.update(x, dt) as the supervisor's loop calls it, one tick with
\* the initial population state, the levels followed as 0 or positive
UpdateFollowed ==
    /\ \E q2 \in UpdateOutcomes(q, w, get_population_state(InitRobotTasks,
                                                          InitRobotActive)) :
          q' = q2
    /\ env_call' = [op |-> "update", dt |-> 1, raised |-> FALSE,
                    below_zero |-> FALSE]
    /\ UNCHANGED w
    /\ returned_q' = SeenBy(returned_q, q')
    /\ UNCHANGED returned_w
    /\ UNCHANGED <<smVars, clockVars, revVars, payVars, supVars, rxVars, loopVars,
                    dmVars, wsVars, consVars,
                    wireVars,
                    detVars,
                    mesaVars,
                    trashVars,
                    fsmVars>>

SnapshotNext ==
    UpdateFollowed \/ SetGrowthRate \/ GetResources \/ GetGrowthRates
        \/ CallerWritesResources \/ CallerWritesRates

\* what one pass of the loop body leaves, given what the steps before the
\* integration left
IntegrateAndBroadcast(ev, dr, x, qs, t, last) ==
    {[status |-> "running", active |-> ev.active, w |-> ev.w,
      tasks |-> dr.tasks, queue |-> dr.queue, x |-> x,
      q |-> q2,
      last |-> IF broadcast_due(t, last) THEN t ELSE last,
      sent |-> ev.sent \o
               (IF broadcast_due(t, last)
                THEN <<StateMsg(q2, get_population_state(dr.tasks, ev.active), t)>>
                ELSE <<>>)]
        : q2 \in UpdateOutcomes(qs, ev.w, x)}

\* the loop stopped by an exception: nothing after the raising call ran
Crashed(status, ev, dr, qs, last) ==
    {[status |-> status, active |-> ev.active, w |-> ev.w,
      tasks |-> dr.tasks, queue |-> dr.queue, x |-> [status |-> status],
      q |-> qs, last |-> last, sent |-> ev.sent]}

\* variant: x is read before the reports are drained
run_iteration_stale_x(cfg, t, last, tasks, active, queue, qs, ws) ==
    LET ev == handle_experiment_events(cfg, t, active, ws)
        x  == get_population_state(tasks, ev.active)
        dr == process_robot_messages(tasks, queue)
    IN  IF dr.status # "ok" THEN Crashed(dr.status, ev, dr, qs, last)
        ELSE IF x.status # "ok" THEN Crashed(x.status, ev, dr, qs, last)
        ELSE IntegrateAndBroadcast(ev, dr, x, qs, t, last)

\* one pass of the while loop of run at the new time t: events, drain, x,
\* integration with that x, broadcast if due.  The set of outcomes.
run_iteration(cfg, t, last, tasks, active, queue, qs, ws) ==
    LET ev == handle_experiment_events(cfg, t, active, ws)
        dr == process_robot_messages(tasks, queue)
        x  == get_population_state(dr.tasks, ev.active)
    IN  IF dr.status # "ok" THEN Crashed(dr.status, ev, dr, qs, last)
        ELSE IF x.status # "ok" THEN Crashed(x.status, ev, dr, qs, last)
        ELSE IntegrateAndBroadcast(ev, dr, x, qs, t, last)

\* a robot's report reaches the receiver between two passes: a robot reports
\* a task other than the one it had (DecisionMaker.revise_task), and has at
\* most one report waiting
ReportArrives ==
    /\ sup_status = "running"
    /\ Len(rx_queue) < MaxQueue
    /\ \E r \in Robots, k \in Tasks :
          /\ \A i \in 1 .. Len(rx_queue) : rx_queue[i].robot_id # r
          /\ k # robot_tasks[r]
          /\ rx_queue' = Append(rx_queue, TaskChangeMsg(r, k))
    /\ drained_dup' = FALSE
    /\ UNCHANGED <<robot_tasks, robot_active>>
    /\ UNCHANGED <<supVars, envVars>>
    /\ UNCHANGED <<clockVars, revVars, payVars, rxVars, loopVars,
                    snapVars, dmVars, wsVars, consVars,
                    wireVars,
                    detVars,
                    mesaVars,
                    trashVars,
                    fsmVars>>

\* run, before the loop: the initial broadcast
RunStarts ==
    /\ sup_status = "constructed"
    /\ sup_status' = "running"
    /\ emitted' = <<StateMsg(q, get_population_state(robot_tasks, robot_active),
                             sup_time)>>
    /\ UNCHANGED <<sup_time, last_broadcast_time, experiment_config, sup_x>>
    /\ UNCHANGED <<smVars, envVars>>
    /\ UNCHANGED <<clockVars, revVars, payVars, rxVars, loopVars,
                    snapVars, dmVars, wsVars, consVars,
                    wireVars,
                    detVars,
                    mesaVars,
                    trashVars,
                    fsmVars>>

\* supervisor.step(timestep) returned: one pass of the loop body
RunIteration ==
    /\ sup_status = "running"
    /\ sup_time < MaxSupTicks * SupDt
    /\ sup_time' = sup_time + SupDt
    /\ \E o \in run_iteration(experiment_config, sup_time + SupDt,
                              last_broadcast_time, robot_tasks, robot_active,
                              rx_queue, q, w) :
          /\ sup_status' = o.status
          /\ robot_active' = o.active
          /\ w' = o.w
          /\ robot_tasks' = o.tasks
          /\ rx_queue' = o.queue
          /\ sup_x' = o.x
          /\ q' = o.q
          /\ last_broadcast_time' = o.last
          /\ emitted' = o.sent
    /\ drained_dup' = HasTwoReports(rx_queue)
    /\ env_call' = [op |-> "update", dt |-> 1, raised |-> FALSE,
                    below_zero |-> FALSE]
    /\ UNCHANGED experiment_config
    /\ UNCHANGED <<clockVars, revVars, payVars, rxVars, loopVars,
                    snapVars, dmVars, wsVars, consVars,
                    wireVars,
                    detVars,
                    mesaVars,
                    trashVars,
                    fsmVars>>

SupervisorNext == ReportArrives \/ RunStarts \/ RunIteration

\* packets no check at the receiver keeps out: a task change to the task one
\* past the last, a task change to task -1, and bytes that are not the JSON
\* of a message
MalformedPacket == [type |-> "malformed", robot_id |-> -1, new_task |-> -1]

UncheckedReports ==
    {TaskChangeMsg(r, k) : r \in Robots, k \in {-1, NumTasks}}
        \cup {MalformedPacket}

\* such a packet reaches the receiver between two passes
UncheckedReportArrives ==
    /\ sup_status = "running"
    /\ Len(rx_queue) < MaxQueue
    /\ \E m \in UncheckedReports : rx_queue' = Append(rx_queue, m)
    /\ drained_dup' = FALSE
    /\ UNCHANGED <<robot_tasks, robot_active>>
    /\ UNCHANGED <<supVars, envVars>>
    /\ UNCHANGED <<clockVars, revVars, payVars, rxVars, loopVars,
                    snapVars, dmVars, wsVars, consVars,
                    wireVars,
                    detVars,
                    mesaVars,
                    trashVars,
                    fsmVars>>

IntakeNext == UncheckedReportArrives \/ SupervisorNext

(***************************************************************************)
(* RobotController (controllers/robot_controller/robot_controller.py)      *)
(***************************************************************************)
\* robot_id = int(name.split('_')[1]); the robot followed is robot 0
AgentId == 0

\* NU = 0 in robot_controller.py
RC_NU == 0

\* self.max_capacity
MaxCapacity == 10

\* len(floats) == 9: NUM_PATCHES q values, NUM_PATCHES x values, the time
ExpectedFloats == 2 * NumTasks + 1

\* a packet of doubles (emitter.send of a list of floats)
FloatPacket(fl) == [kind |-> "floats", floats |-> fl]

\* a packet of bytes (emitter.send(msg.to_bytes()))
BytesPacket(msg) == [kind |-> "bytes", msg |-> msg]

\* the Webots supervisor's broadcast_state: q values, x values, time
BroadcastFloats(qs, xs, t) ==
    FloatPacket([i \in 1 .. ExpectedFloats |->
                    IF i <= NumTasks THEN qs[i - 1]
                    ELSE IF i <= 2 * NumTasks THEN xs[i - NumTasks - 1]
                    ELSE t])

\* send_status: robot_id, current_patch, trash_collected
StatusFloats(id, patch, trash) == FloatPacket(<<id, patch, trash>>)

\* receiver.getFloats(): the doubles of a float packet; the 70 or 71 bytes of
\* the JSON command for robot 0 read as doubles are one double short of a
\* state packet
GetFloats(p) ==
    IF p.kind = "floats" THEN p.floats ELSE [i \in 1 .. (ExpectedFloats - 1) |-> 0]

\* x on the agent's grid: a share is a numerator over NumRobots * NumTasks;
\* __init__ has x = 1 / NUM_PATCHES per patch
AgentStartQ == [i \in Tasks |-> 0]
AgentStartX == [i \in Tasks |-> NumRobots]

\* the state a broadcast carries when patch j holds all the trash and the
\* other patches all the robots, or when nothing has grown yet
SurplusAt(j) == [i \in Tasks |-> IF i = j THEN MaxPayoff ELSE 0]
CrowdAway(j) == [i \in Tasks |-> IF i = j THEN 0 ELSE NumRobots]

\* what the agent's receiver may be given: state broadcasts, status packets
\* of the other robots (3 floats), a packet one float too long, and the
\* supervisor's disable / enable commands for this robot
StateBroadcastPackets ==
    {BroadcastFloats(SurplusAt(j), CrowdAway(j), 0) : j \in Tasks}
        \cup {BroadcastFloats(AgentStartQ, AgentStartX, 0)}

AgentPackets ==
    StateBroadcastPackets
        \cup {StatusFloats(1, 0, 0),
              FloatPacket([i \in 1 .. (ExpectedFloats + 1) |-> 1]),
              BytesPacket(FailureCommand(AgentId, TRUE)),
              BytesPacket(FailureCommand(AgentId, FALSE))}

RECURSIVE ReceiveLoopFirstWins(_, _, _, _)
\* variant: only the first state packet of a drain is taken
ReceiveLoopFirstWins(qc, xc, queue, taken) ==
    IF queue = <<>> THEN [q |-> qc, x |-> xc, queue |-> queue]
    ELSE LET floats == GetFloats(Head(queue))
         IN  IF Len(floats) = ExpectedFloats /\ ~taken
             THEN ReceiveLoopFirstWins([i \in Tasks |-> floats[i + 1]],
                                       [i \in Tasks |-> floats[NumTasks + i + 1]],
                                       Tail(queue), TRUE)
             ELSE ReceiveLoopFirstWins(qc, xc, Tail(queue), taken)

receive_state_info_first_wins(qc, xc, queue) ==
    ReceiveLoopFirstWins(qc, xc, queue, FALSE)

RECURSIVE ReceiveLoopUnchecked(_, _, _)
\* variant: no length test, the slices are taken from whatever arrived
ReceiveLoopUnchecked(qc, xc, queue) ==
    IF queue = <<>> THEN [q |-> qc, x |-> xc, queue |-> queue]
    ELSE LET floats == GetFloats(Head(queue))
         IN  ReceiveLoopUnchecked(
                 [i \in Tasks |-> IF i + 1 <= Len(floats) THEN floats[i + 1] ELSE 0],
                 [i \in Tasks |-> IF NumTasks + i + 1 <= Len(floats)
                                  THEN floats[NumTasks + i + 1] ELSE 0],
                 Tail(queue))

receive_state_info_unchecked(qc, xc, queue) == ReceiveLoopUnchecked(qc, xc, queue)

RECURSIVE ReceiveLoop(_, _, _)
\* while getQueueLength() > 0: getFloats; a packet of the expected length
\* overwrites q and x, any other packet is only warned about; nextPacket
ReceiveLoop(qc, xc, queue) ==
    IF queue = <<>> THEN [q |-> qc, x |-> xc, queue |-> queue]
    ELSE LET floats == GetFloats(Head(queue))
         IN  IF Len(floats) = ExpectedFloats
             THEN ReceiveLoop([i \in Tasks |-> floats[i + 1]],
                              [i \in Tasks |-> floats[NumTasks + i + 1]],
                              Tail(queue))
             ELSE ReceiveLoop(qc, xc, Tail(queue))

\* receive_state_info: the cached q and x and the queue it leaves
receive_state_info(qc, xc, queue) == ReceiveLoop(qc, xc, queue)

\* history only: how many packets of a queue have the expected length, and
\* how many do not
CountPackets(queue) ==
    [taken    |-> Cardinality({i \in DOMAIN queue :
                                 Len(GetFloats(queue[i])) = ExpectedFloats}),
     rejected |-> Cardinality({i \in DOMAIN queue :
                                 Len(GetFloats(queue[i])) # ExpectedFloats})]

NothingDrained == [taken |-> 0, rejected |-> 0]

\* a packet reaches the robot's receiver
AgentPacketArrives ==
    /\ Len(agent_rx) < MaxQueue
    /\ \E p \in AgentPackets : agent_rx' = Append(agent_rx, p)
    /\ rx_drained' = NothingDrained
    /\ UNCHANGED <<agent_q, agent_x>>
    /\ UNCHANGED loopVars
    /\ UNCHANGED <<smVars, clockVars, revVars, envVars, payVars, supVars,
                    snapVars, dmVars, wsVars, consVars,
                    wireVars,
                    detVars,
                    mesaVars,
                    trashVars,
                    fsmVars>>

\* receive_state_info()
ReceiveStateInfo ==
    LET r == receive_state_info(agent_q, agent_x, agent_rx)
    IN  /\ agent_q' = r.q
        /\ agent_x' = r.x
        /\ agent_rx' = r.queue
        /\ rx_drained' = CountPackets(agent_rx)
        /\ UNCHANGED loopVars
        /\ UNCHANGED <<smVars, clockVars, revVars, envVars, payVars, supVars,
                    snapVars, dmVars, wsVars, consVars,
                    wireVars,
                    detVars,
                    mesaVars,
                    trashVars,
                    fsmVars>>

ReceiveNext == AgentPacketArrives \/ ReceiveStateInfo

(***************************************************************************)
(* RobotController: the revision check, the state machine, the run loop    *)
(***************************************************************************)
\* revision_protocol(): the patches it may return.  The payoffs are
\* payoff(i) for the cached q; random.random() picks among the patches whose
\* entry of switch_probs (or stay_prob) is > 0
RevisionChoices(cur, qs) ==
    LET pay == [i \in Tasks |-> rc_payoff(RC_NU, i, qs, 0).value]
    IN  {o.task : o \in revision_protocol_draw(cur, pay)}

\* check_revision_time() at time t: when the clock is due, a revision; a
\* different patch becomes target_patch and the state TRANSITION; the next
\* revision time is sampled from the current time
check_revision_time(t, last, next, cur, target, st, qs) ==
    IF t >= last + next
    THEN {[current_patch |-> cur,
           target_patch |-> IF new_patch # cur THEN new_patch ELSE target,
           state |-> IF new_patch # cur THEN "TRANSITION" ELSE st,
           last |-> t, next |-> d, due |-> TRUE, selected |-> new_patch]
            : new_patch \in RevisionChoices(cur, qs), d \in InterArrivals}
    ELSE {[current_patch |-> cur, target_patch |-> target, state |-> st,
           last |-> last, next |-> next, due |-> FALSE, selected |-> cur]}

\* the if / elif chain of run on self.state: what it may leave, over what
\* the sensors show (a collision, the target reached, the avoidance second
\* over)
fsm_step(st, cur, target, trash) ==
    IF st = "FORAGING"
    THEN {[state |-> IF trash >= MaxCapacity THEN "DUMP"
                     ELSE IF collision THEN "COLLISION_AVOIDANCE" ELSE "FORAGING",
           current_patch |-> cur, trash |-> trash] : collision \in BOOLEAN}
    ELSE IF st = "COLLISION_AVOIDANCE"
    THEN {[state |-> IF over THEN "FORAGING" ELSE "COLLISION_AVOIDANCE",
           current_patch |-> cur, trash |-> trash] : over \in BOOLEAN}
    ELSE IF st = "TRANSITION"
    THEN {[state |-> IF collision THEN "COLLISION_AVOIDANCE"
                     ELSE IF arrived THEN "FORAGING" ELSE "TRANSITION",
           current_patch |-> IF arrived THEN target ELSE cur,
           trash |-> trash] : collision \in BOOLEAN, arrived \in BOOLEAN}
    ELSE IF st = "DUMP"
    THEN {[state |-> IF arrived THEN "FORAGING" ELSE "DUMP",
           current_patch |-> cur,
           trash |-> IF arrived THEN 0 ELSE trash] : arrived \in BOOLEAN}
    ELSE {[state |-> st, current_patch |-> cur, trash |-> trash]}

\* history only: the robot has read a disable command and no enable since
DisabledAfter(was, queue) ==
    LET cmds == {i \in DOMAIN queue : queue[i].kind = "bytes"}
    IN  IF cmds = {} THEN was
        ELSE LET last == CHOOSE i \in cmds : \A j \in cmds : j <= i
             IN  queue[last].msg.command = "disable"

\* one pass of the while loop of run at time t, the receiver holding batch:
\* receive_state_info, send_status, check_revision_time, the state machine.
\* The set of outcomes.
run_body(t, batch, qc, xc, cur, target, st, trash, last, next) ==
    LET r == receive_state_info(qc, xc, batch)
    IN  UNION {
          {[q |-> r.q, x |-> r.x, queue |-> r.queue,
            tx |-> StatusFloats(AgentId, cur, trash),
            current_patch |-> f.current_patch, target_patch |-> c.target_patch,
            state |-> f.state, trash |-> f.trash,
            last |-> c.last, next |-> c.next,
            due |-> c.due, selected |-> c.selected]
              : f \in fsm_step(c.state, c.current_patch, c.target_patch, trash)}
          : c \in check_revision_time(t, last, next, cur, target, st, r.q)}

\* what the receiver holds when robot.step returns: nothing, or one packet
AgentBatches == {<<>>} \cup {<<p>> : p \in AgentPackets}

NoStep == [due |-> FALSE, before |-> AgentId % NumTasks,
           selected |-> AgentId % NumTasks, sent |-> FALSE, inactive |-> FALSE]

\* robot.step(timestep) returned: one pass of the loop body
RobotRunBody ==
    /\ agent_time < MaxTime
    /\ agent_time' = agent_time + 1
    /\ \E batch \in AgentBatches :
         /\ \E o \in run_body(agent_time + 1, batch, agent_q, agent_x,
                              current_patch, target_patch, robot_state,
                              trash_collected, last_revision_time,
                              next_revision_time) :
              /\ agent_q' = o.q
              /\ agent_x' = o.x
              /\ agent_rx' = o.queue
              /\ agent_tx' = o.tx
              /\ current_patch' = o.current_patch
              /\ target_patch' = o.target_patch
              /\ robot_state' = o.state
              /\ trash_collected' = o.trash
              /\ last_revision_time' = o.last
              /\ next_revision_time' = o.next
              /\ agent_did' = [due |-> o.due, before |-> current_patch,
                               selected |-> o.selected, sent |-> TRUE,
                               inactive |-> disabled /\ DisabledAfter(disabled, batch)]
         /\ disabled' = DisabledAfter(disabled, batch)
         /\ rx_drained' = CountPackets(batch)
    /\ UNCHANGED <<smVars, clockVars, revVars, envVars, payVars, supVars,
                    snapVars, dmVars, wsVars, consVars,
                    wireVars,
                    detVars,
                    mesaVars,
                    trashVars,
                    fsmVars>>

AgentNext == RobotRunBody

\* the time of the next pass, kept as the time since the last revision
\* (check_revision_time reads only current_time - last_revision_time) and
\* followed up to MaxTime, beyond any sampled revision time
SinceRevision == IF agent_time < MaxTime THEN agent_time + 1 ELSE MaxTime

\* one pass of the loop body of a run that does not end
RobotRunForever ==
    /\ \E batch \in AgentBatches :
         /\ \E o \in run_body(SinceRevision, batch, agent_q, agent_x,
                              current_patch, target_patch, robot_state,
                              trash_collected, last_revision_time,
                              next_revision_time) :
              /\ agent_q' = o.q
              /\ agent_x' = o.x
              /\ agent_rx' = o.queue
              /\ agent_tx' = o.tx
              /\ current_patch' = o.current_patch
              /\ target_patch' = o.target_patch
              /\ robot_state' = o.state
              /\ trash_collected' = o.trash
              /\ agent_time' = (IF o.due THEN 0 ELSE SinceRevision)
              /\ UNCHANGED last_revision_time
              /\ next_revision_time' = o.next
              /\ agent_did' = [due |-> o.due, before |-> current_patch,
                               selected |-> o.selected, sent |-> TRUE,
                               inactive |-> disabled /\ DisabledAfter(disabled, batch)]
         /\ disabled' = DisabledAfter(disabled, batch)
         /\ rx_drained' = CountPackets(batch)
    /\ UNCHANGED <<smVars, clockVars, revVars, envVars, payVars, supVars,
                    snapVars, dmVars, wsVars, consVars,
                    wireVars,
                    detVars,
                    mesaVars,
                    trashVars,
                    fsmVars>>

\* a pass, begun on the way to the target patch, in which the robot gets
\* within reach of its centre
Arrives ==
    /\ robot_state = "TRANSITION"
    /\ RobotRunForever
    /\ current_patch' = target_patch'

\* a pass in which the avoidance second is found to be over
AvoidanceEnds ==
    /\ robot_state = "COLLISION_AVOIDANCE"
    /\ RobotRunForever
    /\ robot_state' = "FORAGING"

TransitNext == RobotRunForever

(***************************************************************************)
(* DecisionMaker (controllers/robot_controller/decision_maker.py)          *)
(***************************************************************************)
\* Config.RHO, the rate of the DecisionMaker's RevisionProtocol
ConfigRho == [num |-> 1, den |-> 600]

\* the (q, x) pairs update_state is given: what a state broadcast carries
CachedStates ==
    {[q |-> SurplusAt(j), x |-> CrowdAway(j)] : j \in Tasks}
        \cup {[q |-> AgentStartQ, x |-> AgentStartX]}

\* the w update_state is given: a list of rates, or None
CachedRates == {<<ws>> : ws \in PayoffWs} \cup {None}

\* initialize_task: robot_id % Config.NUM_TASKS
initialize_task(robot_id) == robot_id % NumTasks

\* variant: the missing task is looked at before the missing state
revise_task_task_first(robot_id, cur, lq, lx, lw, n, gamma, xs) ==
    IF cur = None
    THEN {[status |-> "ok", kind |-> "initialize",
           ret |-> <<initialize_task(robot_id)>>,
           current_task |-> <<initialize_task(robot_id)>>]}
    ELSE {[status |-> "ok", kind |-> "no_state", ret |-> None,
           current_task |-> cur]}

\* revise_task: None without a cached state; the initial task when
\* current_task is None; otherwise the payoffs and select_task, the new task
\* when it differs and None when it does not.  The set of outcomes: what is
\* returned or raised, and the current_task left.
revise_task(robot_id, cur, lq, lx, lw, n, gamma, xs) ==
    IF lq = None \/ lx = None
    THEN {[status |-> "ok", kind |-> "no_state", ret |-> None,
           current_task |-> cur]}
    ELSE IF cur = None
    THEN {[status |-> "ok", kind |-> "initialize",
           ret |-> <<initialize_task(robot_id)>>,
           current_task |-> <<initialize_task(robot_id)>>]}
    ELSE LET ws  == IF lw = None THEN EnvStartW ELSE lw[1]
             sel == UNION {IF pay.status # "ok"
                           THEN {[status |-> pay.status, task |-> cur[1]]}
                           ELSE select_task(ConfigRho, cur[1], pay.value)
                             : pay \in compute_all_payoffs(n, gamma, xs,
                                                           lq[1], lx[1], ws)}
         IN  {IF s.status # "ok"
              THEN [status |-> s.status, kind |-> "raised", ret |-> None,
                    current_task |-> cur]
              ELSE IF s.task # cur[1]
              THEN [status |-> "ok", kind |-> "switch", ret |-> <<s.task>>,
                    current_task |-> <<s.task>>]
              ELSE [status |-> "ok", kind |-> "stay", ret |-> None,
                    current_task |-> cur]
                : s \in sel}

\* update_state(q, x, w)
UpdateState ==
    /\ \E c \in CachedStates, ws \in CachedRates :
          /\ dm_latest_q' = <<c.q>>
          /\ dm_latest_x' = <<c.x>>
          /\ dm_latest_w' = ws
    /\ dm_ret' = [status |-> "ok", op |-> "update_state", kind |-> "none",
                  ret |-> None]
    /\ UNCHANGED <<dm_robot_id, dm_current_task>>
    /\ UNCHANGED <<smVars, clockVars, revVars, envVars, payVars, supVars, rxVars,
                    loopVars, snapVars, wsVars, consVars,
                    wireVars,
                    detVars,
                    mesaVars,
                    trashVars,
                    fsmVars>>

\* set_equilibrium(gamma_star, x_star): handed to the payoff mechanism
DMSetEquilibrium ==
    /\ gamma_star = None
    /\ gamma_star' = <<MaxQ>>
    /\ x_star' = <<AgentStartX>>
    /\ dm_ret' = [status |-> "ok", op |-> "set_equilibrium", kind |-> "none",
                  ret |-> None]
    /\ UNCHANGED <<nu, payoff_ret>>
    /\ UNCHANGED <<dm_robot_id, dm_current_task, dm_latest_q, dm_latest_x,
                   dm_latest_w>>
    /\ UNCHANGED <<smVars, clockVars, revVars, envVars, supVars, rxVars,
                    loopVars, snapVars, wsVars, consVars,
                    wireVars,
                    detVars,
                    mesaVars,
                    trashVars,
                    fsmVars>>

\* revise_task()
ReviseTask ==
    /\ \E o \in revise_task(dm_robot_id, dm_current_task, dm_latest_q,
                            dm_latest_x, dm_latest_w, nu, gamma_star, x_star) :
          /\ dm_current_task' = o.current_task
          /\ dm_ret' = [status |-> o.status, op |-> "revise_task",
                        kind |-> o.kind, ret |-> o.ret]
    /\ UNCHANGED <<dm_robot_id, dm_latest_q, dm_latest_x, dm_latest_w>>
    /\ UNCHANGED <<smVars, clockVars, revVars, envVars, payVars, supVars, rxVars,
                    loopVars, snapVars, wsVars, consVars,
                    wireVars,
                    detVars,
                    mesaVars,
                    trashVars,
                    fsmVars>>

DecisionNext == UpdateState \/ DMSetEquilibrium \/ ReviseTask

\* initialize_task(), called on its own
InitializeTask ==
    /\ dm_current_task' = <<initialize_task(dm_robot_id)>>
    /\ dm_ret' = [status |-> "ok", op |-> "initialize_task", kind |-> "initialize",
                  ret |-> <<initialize_task(dm_robot_id)>>]
    /\ UNCHANGED <<dm_robot_id, dm_latest_q, dm_latest_x, dm_latest_w>>
    /\ UNCHANGED <<smVars, clockVars, revVars, envVars, payVars, supVars, rxVars,
                    loopVars, snapVars, wsVars, consVars, wireVars,
                    detVars, mesaVars, trashVars, fsmVars>>

\* every public method of the DecisionMaker, in any order
DecisionCallsNext ==
    UpdateState \/ DMSetEquilibrium \/ ReviseTask \/ InitializeTask

(***************************************************************************)
(* SupervisorController of supervisor_controller.py (robots tracked by     *)
(* their status packets): receive_robot_status and update_distribution     *)
(***************************************************************************)
\* __init__: robot_assignments = [0] * NUM_ROBOTS, x = [0.25] * NUM_PATCHES
WsStartAssignments == [i \in Robots |-> 0]
WsStartX == [num |-> [i \in Tasks |-> 1], den |-> NumTasks]

\* the status packets the receiver is given: each robot's (id, patch, trash),
\* the patch also one past the last; one packet of an unknown robot id
WsStatusPackets ==
    {StatusFloats(r, k, 0) : r \in Robots, k \in 0 .. NumTasks}
        \cup {StatusFloats(NumRobots, 0, 0)}

RECURSIVE ReceiveStatusLoop(_, _, _)
\* while getQueueLength() > 0: a packet of 3 floats from a known robot id
\* overwrites that robot's assignment with whatever patch it carries
ReceiveStatusLoop(assignments, queue, taken) ==
    IF queue = <<>>
    THEN [assignments |-> assignments, queue |-> queue, taken |-> taken]
    ELSE LET floats == GetFloats(Head(queue))
         IN  IF Len(floats) = 3 /\ floats[1] >= 0 /\ floats[1] < NumRobots
             THEN ReceiveStatusLoop([assignments EXCEPT ![floats[1]] = floats[2]],
                                    Tail(queue), 1)
             ELSE ReceiveStatusLoop(assignments, Tail(queue), taken)

\* receive_robot_status
receive_robot_status(assignments, queue, taken) ==
    ReceiveStatusLoop(assignments, queue, taken)

\* update_distribution: the assignments inside 0 .. NUM_PATCHES-1 are
\* counted, every count is divided by NUM_ROBOTS
update_distribution(assignments) ==
    [num |-> [k \in Tasks |->
                 Cardinality({r \in DOMAIN assignments : assignments[r] = k})],
     den |-> NumRobots]

\* a robot's send_status packet reaches the receiver; a sender has at most
\* one packet waiting
WsStatusArrives ==
    /\ Len(ws_rx) < MaxQueue
    /\ \E p \in WsStatusPackets :
          /\ \A i \in 1 .. Len(ws_rx) : ws_rx[i].floats[1] # p.floats[1]
          /\ ws_rx' = Append(ws_rx, p)
    /\ UNCHANGED <<robot_assignments, ws_x, ws_statuses>>
    /\ UNCHANGED <<smVars, clockVars, revVars, envVars, payVars, supVars, rxVars,
                    loopVars, snapVars, dmVars, consVars,
                    wireVars,
                    detVars,
                    mesaVars,
                    trashVars,
                    fsmVars>>

\* receive_robot_status()
ReceiveRobotStatus ==
    LET r == receive_robot_status(robot_assignments, ws_rx, ws_statuses)
    IN  /\ robot_assignments' = r.assignments
        /\ ws_rx' = r.queue
        /\ ws_statuses' = r.taken
        /\ UNCHANGED ws_x
        /\ UNCHANGED <<smVars, clockVars, revVars, envVars, payVars, supVars,
                        rxVars, loopVars, snapVars, dmVars, consVars,
                    wireVars,
                    detVars,
                    mesaVars,
                    trashVars,
                    fsmVars>>

\* update_distribution()
UpdateDistribution ==
    /\ ws_x' = update_distribution(robot_assignments)
    /\ UNCHANGED <<robot_assignments, ws_rx, ws_statuses>>
    /\ UNCHANGED <<smVars, clockVars, revVars, envVars, payVars, supVars, rxVars,
                    loopVars, snapVars, dmVars, consVars,
                    wireVars,
                    detVars,
                    mesaVars,
                    trashVars,
                    fsmVars>>

WebotsNext == WsStatusArrives \/ ReceiveRobotStatus \/ UpdateDistribution

(***************************************************************************)
(* shared/communication.py : Message.to_bytes / from_bytes                  *)
(*                                                                         *)
(* A Python value is a record naming its type; the bytes are the JSON text, *)
(* held as the tree of its literals: a number literal with or without a     *)
(* fraction part, a string, true / false, an array, an object.              *)
(***************************************************************************)
PyInt(v)    == [py |-> "int", v |-> v]
PyFloat(v)  == [py |-> "float", v |-> v]
PyBool(b)   == [py |-> "bool", v |-> b]
PyList(s)   == [py |-> "list", items |-> s]
PyTuple(s)  == [py |-> "tuple", items |-> s]

\* constants.MessageType: member name -> value
MessageType ==
    [n \in {"STATE_UPDATE", "TASK_CHANGE", "ROBOT_STATUS"} |->
        CASE n = "STATE_UPDATE" -> "state_update"
          [] n = "TASK_CHANGE"  -> "task_change"
          [] n = "ROBOT_STATUS" -> "robot_status"]

\* json.dumps of a number or bool: repr of a float always has a fraction
\* part (or exponent), an int never has
DumpScalar(v) ==
    CASE v.py = "int"   -> [js |-> "number", fraction |-> FALSE, v |-> v.v]
      [] v.py = "float" -> [js |-> "number", fraction |-> TRUE, v |-> v.v]
      [] v.py = "bool"  -> [js |-> IF v.v THEN "true" ELSE "false"]

\* json.dumps: a list and a tuple are both written as an array
Dump(v) ==
    IF v.py \in {"list", "tuple"}
    THEN [js |-> "array", items |-> [i \in DOMAIN v.items |-> DumpScalar(v.items[i])]]
    ELSE DumpScalar(v)

\* json.loads of a literal
LoadScalar(j) ==
    CASE j.js = "number" -> IF j.fraction THEN PyFloat(j.v) ELSE PyInt(j.v)
      [] j.js = "true"   -> PyBool(TRUE)
      [] j.js = "false"  -> PyBool(FALSE)

\* json.loads: an array is read as a list
Load(j) ==
    IF j.js = "array"
    THEN PyList([i \in DOMAIN j.items |-> LoadScalar(j.items[i])])
    ELSE LoadScalar(j)

\* variant: the member's name is written instead of its value
to_bytes_member_name(msg) ==
    [js |-> "object",
     type |-> [js |-> "string", s |-> msg.type],
     data |-> [k \in DOMAIN msg.data |-> Dump(msg.data[k])]]

\* to_bytes: json.dumps({'type': self.type.value, 'data': self.data})
to_bytes(msg) ==
    [js |-> "object",
     type |-> [js |-> "string", s |-> MessageType[msg.type]],
     data |-> [k \in DOMAIN msg.data |-> Dump(msg.data[k])]]

\* from_bytes: json.loads, MessageType(value) raises ValueError for a string
\* that is no member's value
from_bytes(bytes) ==
    IF \E n \in DOMAIN MessageType : MessageType[n] = bytes.type.s
    THEN [status |-> "ok",
          msg |-> [type |-> CHOOSE n \in DOMAIN MessageType :
                                MessageType[n] = bytes.type.s,
                   data |-> [k \in DOMAIN bytes.data |-> Load(bytes.data[k])]]]
    ELSE [status |-> "ValueError"]

\* SupervisorBroadcast.create_state_message(q, x, time)
create_state_message(qs, xs, time) ==
    [type |-> "STATE_UPDATE", data |-> [q |-> qs, x |-> xs, time |-> time]]

\* RobotReport.create_task_change_message(robot_id, old_task, new_task)
create_task_change_message(robot_id, old_task, new_task) ==
    [type |-> "TASK_CHANGE",
     data |-> [robot_id |-> PyInt(robot_id), old_task |-> PyInt(old_task),
               new_task |-> PyInt(new_task)]]

\* RobotReport.create_status_message(...): position is a tuple
create_status_message(robot_id, task, basket_count, position, is_active) ==
    [type |-> "ROBOT_STATUS",
     data |-> [robot_id |-> PyInt(robot_id), current_task |-> PyInt(task),
               basket_count |-> PyInt(basket_count), position |-> position,
               is_active |-> PyBool(is_active)]]

\* the list of floats get_resources / get_population_state hands over: task i
\* is item i + 1
FloatList(f) == PyList([i \in 1 .. NumTasks |-> PyFloat(f[i - 1])])

\* the q and x a state broadcast is built from, and its time: current_time
\* is a float, a caller of create_state_message may also pass an int
WireQs == {FloatList(qs) : qs \in PayoffQs}
WireXs == {FloatList(get_population_state(InitRobotTasks, InitRobotActive).num),
           FloatList(AgentStartQ)}
WireTimes == {PyFloat(0), PyFloat(MaxTime), PyInt(MaxTime)}

CreateStateMessage ==
    /\ \E qs \in WireQs, xs \in WireXs, t \in WireTimes :
          wire_msg' = <<create_state_message(qs, xs, t)>>
    /\ wire_bytes' = None
    /\ wire_back' = NotCalled
    /\ UNCHANGED <<smVars, clockVars, revVars, envVars, payVars, supVars, rxVars,
                    loopVars, snapVars, dmVars, wsVars, consVars,
                    detVars,
                    mesaVars,
                    trashVars,
                    fsmVars>>

CreateTaskChangeMessage ==
    /\ \E r \in Robots, old \in Tasks, new \in Tasks :
          wire_msg' = <<create_task_change_message(r, old, new)>>
    /\ wire_bytes' = None
    /\ wire_back' = NotCalled
    /\ UNCHANGED <<smVars, clockVars, revVars, envVars, payVars, supVars, rxVars,
                    loopVars, snapVars, dmVars, wsVars, consVars,
                    detVars,
                    mesaVars,
                    trashVars,
                    fsmVars>>

CreateStatusMessage ==
    /\ \E r \in Robots, k \in Tasks, active \in BOOLEAN :
          wire_msg' = <<create_status_message(r, k, 0,
                            PyTuple(<<PyFloat(0), PyFloat(MaxQ)>>), active)>>
    /\ wire_bytes' = None
    /\ wire_back' = NotCalled
    /\ UNCHANGED <<smVars, clockVars, revVars, envVars, payVars, supVars, rxVars,
                    loopVars, snapVars, dmVars, wsVars, consVars,
                    detVars,
                    mesaVars,
                    trashVars,
                    fsmVars>>

ToBytes ==
    /\ wire_msg # None
    /\ wire_bytes' = <<to_bytes(wire_msg[1])>>
    /\ wire_back' = NotCalled
    /\ UNCHANGED wire_msg
    /\ UNCHANGED <<smVars, clockVars, revVars, envVars, payVars, supVars, rxVars,
                    loopVars, snapVars, dmVars, wsVars, consVars,
                    detVars,
                    mesaVars,
                    trashVars,
                    fsmVars>>

FromBytes ==
    /\ wire_bytes # None
    /\ wire_back' = from_bytes(wire_bytes[1])
    /\ UNCHANGED <<wire_msg, wire_bytes>>
    /\ UNCHANGED <<smVars, clockVars, revVars, envVars, payVars, supVars, rxVars,
                    loopVars, snapVars, dmVars, wsVars, consVars,
                    detVars,
                    mesaVars,
                    trashVars,
                    fsmVars>>

WireNext ==
    CreateStateMessage \/ CreateTaskChangeMessage \/ CreateStatusMessage
        \/ ToBytes \/ FromBytes

(***************************************************************************)
(* Two runs of one robot's clock and revision protocol on the same draws    *)
(* (poisson_clock.py, revision_protocol.py: both draw from np.random)       *)
(***************************************************************************)
UniformDraws == 0 .. (UGrid - 1)

\* the draws of a run, in the order np.random hands them out
DrawStreams == [1 .. MaxDraws -> UniformDraws]
RngStart == [i \in 1 .. MaxDraws |-> 0]

\* np.random.exponential(1/lambda) from the uniform draw u: grows with u
Exponential(u) == 1 + (u * MaxInter) \div UGrid

\* PoissonClock.__init__: next_tick_time = 0.0, then the first draw
RunStart(draws) ==
    [used |-> 1, next |-> generate_next_tick(0, Exponential(draws[1])),
     ticks |-> 0, tick_ret |-> "none", selected |-> NotCalled]

\* variant: the draw is not used, any index of positive probability
choice_any(p, u) == {j \in Tasks : p.num[j] > 0}

\* np.random.choice(len(p), p=p) for the uniform draw u: the first index
\* whose cumulative probability exceeds u.  The set of indices it can return.
choice(p, u) ==
    {j \in Tasks : /\ SumTo(p.num, j + 1) * UGrid > u * p.den
                   /\ \A k \in 0 .. (j - 1) : SumTo(p.num, k + 1) * UGrid <= u * p.den}

\* should_tick(t) in a run: a tick takes the run's next draw
TickOutcomes(run, draws, t) ==
    IF t >= run.next /\ run.used >= MaxDraws
    THEN {}
    ELSE LET d == IF t >= run.next THEN Exponential(draws[run.used + 1]) ELSE 1
             r == should_tick(run.next, run.ticks, t, d)
         IN  {[run EXCEPT !.next = r.next, !.ticks = r.ticks, !.tick_ret = r.ret,
                          !.used = IF r.ret = "True" THEN @ + 1 ELSE @]}

\* select_task(cur, pay) in a run: compute_switch_probabilities, then one
\* draw for np.random.choice
SelectOutcomes(run, draws, rate, cur, pay) ==
    LET p == compute_switch_probabilities(rate, cur, pay)
    IN  IF p.status # "ok"
        THEN {[run EXCEPT !.selected = [status |-> p.status, task |-> cur,
                                        from |-> cur],
                          !.tick_ret = "none"]}
        ELSE IF run.used >= MaxDraws THEN {}
        ELSE {[run EXCEPT !.selected = [status |-> "ok", task |-> j, from |-> cur],
                          !.tick_ret = "none",
                          !.used = @ + 1] : j \in choice(p, draws[run.used + 1])}

\* the payoffs select_task is called with in the two runs
RunPayoffs == {SurplusAt(j) : j \in Tasks} \cup {[i \in Tasks |-> 0]}

\* the simulation step between two polls, the same in both runs
BothTimePass ==
    /\ run_time < MaxTime
    /\ run_time' = run_time + 1
    /\ UNCHANGED <<rng, run_a, run_b>>
    /\ UNCHANGED <<smVars, clockVars, revVars, envVars, payVars, supVars, rxVars,
                    loopVars, snapVars, dmVars, wsVars, consVars, wireVars,
                    mesaVars,
                    trashVars,
                    fsmVars>>

\* both runs poll their clock at the same time
BothShouldTick ==
    /\ \E a \in TickOutcomes(run_a, rng, run_time),
          b \in TickOutcomes(run_b, rng, run_time) :
            run_a' = a /\ run_b' = b
    /\ UNCHANGED <<rng, run_time>>
    /\ UNCHANGED <<smVars, clockVars, revVars, envVars, payVars, supVars, rxVars,
                    loopVars, snapVars, dmVars, wsVars, consVars, wireVars,
                    mesaVars,
                    trashVars,
                    fsmVars>>

\* both runs call select_task with the same arguments
BothSelectTask ==
    /\ \E rate \in Rhos, cur \in Tasks, pay \in RunPayoffs :
         \E a \in SelectOutcomes(run_a, rng, rate, cur, pay),
            b \in SelectOutcomes(run_b, rng, rate, cur, pay) :
              run_a' = a /\ run_b' = b
    /\ UNCHANGED <<rng, run_time>>
    /\ UNCHANGED <<smVars, clockVars, revVars, envVars, payVars, supVars, rxVars,
                    loopVars, snapVars, dmVars, wsVars, consVars, wireVars,
                    mesaVars,
                    trashVars,
                    fsmVars>>

TwoRunsNext == BothTimePass \/ BothShouldTick \/ BothSelectTask

(***************************************************************************)
(* The Mesa model (marta_mesa/model.py, marta_mesa/agent.py)                *)
(***************************************************************************)
\* RobotAgent.__init__: current_task = unique_id % Config.NUM_TASKS
MesaStartTasks == [a \in Robots |-> a % NumTasks]

\* ResourceModel.__init__: q = 0.1 for every patch, the level above 0
MesaStartQ == [i \in Tasks |-> 1]

\* update_population_distribution: the agents per task over num_robots
update_population_distribution(tasks) ==
    [num |-> [k \in Tasks |-> Cardinality({a \in Robots : tasks[a] = k})],
     den |-> NumRobots]

\* calculate_utility: q / max(0.01, x), as a fraction (both sides times
\* 100 * num_robots)
calculate_utility(i, x, qs) ==
    [num |-> qs[i] * 100 * x.den, den |-> Max2(x.den, 100 * x.num[i])]

\* np.argmax(utilities): the first task of highest utility
MesaArgmax(x, qs) ==
    LET u(i) == calculate_utility(i, x, qs)
        more(i, j) == u(i).num * u(j).den > u(j).num * u(i).den
    IN  CHOOSE i \in Tasks : /\ \A j \in Tasks : ~more(j, i)
                             /\ \A j \in 0 .. (i - 1) : more(i, j)

\* report_task_change(robot_id, old_task, new_task): x is recomputed from
\* the agents' current_task as they are during the call
report_task_change(tasks, robot_id, old_task, new_task) ==
    [status |-> "ok", robot_id |-> robot_id, old_task |-> old_task,
     new_task |-> new_task, seen |-> tasks,
     x |-> update_population_distribution(tasks)]

\* RobotAgent.revise_task of agent a: the task of highest utility; when it
\* is another task, the report is made and then current_task is assigned
mesa_revise_task(a, tasks, x, qs) ==
    LET new_task == MesaArgmax(x, qs)
    IN  IF new_task # tasks[a]
        THEN LET r == report_task_change(tasks, a, tasks[a], new_task)
             IN  [tasks |-> [tasks EXCEPT ![a] = new_task], x |-> r.x, report |-> r]
        ELSE [tasks |-> tasks, x |-> x, report |-> NotCalled]

\* RobotAgent.step of one agent whose clock ticks
MesaReviseTask ==
    /\ \E a \in Robots :
         LET r == mesa_revise_task(a, mesa_task, mesa_x, mesa_q)
         IN  /\ mesa_task' = r.tasks
             /\ mesa_x' = r.x
             /\ mesa_report' = r.report
    /\ UNCHANGED mesa_q
    /\ UNCHANGED <<smVars, clockVars, revVars, envVars, payVars, supVars, rxVars,
                    loopVars, snapVars, dmVars, wsVars, consVars, wireVars,
                    detVars,
                    trashVars,
                    fsmVars>>

\* update_resources: w - F is at least 0.1, every level below the clamp
\* grows, by an amount that depends on x
MesaUpdateResources ==
    /\ \E qs \in [Tasks -> 0 .. MaxQ] :
         /\ \A i \in Tasks : IF mesa_q[i] = MaxQ THEN qs[i] = MaxQ
                             ELSE qs[i] > mesa_q[i]
         /\ mesa_q' = qs
    /\ mesa_report' = NotCalled
    /\ UNCHANGED <<mesa_task, mesa_x>>
    /\ UNCHANGED <<smVars, clockVars, revVars, envVars, payVars, supVars, rxVars,
                    loopVars, snapVars, dmVars, wsVars, consVars, wireVars,
                    detVars,
                    trashVars,
                    fsmVars>>

\* report_trash_collected for a trash object of patch i: q[i] goes down,
\* not below 0
MesaTrashCollected ==
    /\ \E i \in Tasks : mesa_q' = [mesa_q EXCEPT ![i] = Max2(0, @ - 1)]
    /\ mesa_report' = NotCalled
    /\ UNCHANGED <<mesa_task, mesa_x>>
    /\ UNCHANGED <<smVars, clockVars, revVars, envVars, payVars, supVars, rxVars,
                    loopVars, snapVars, dmVars, wsVars, consVars, wireVars,
                    detVars,
                    trashVars,
                    fsmVars>>

\* the end of ResourceModel.step: update_population_distribution()
MesaEndOfStep ==
    /\ mesa_x' = update_population_distribution(mesa_task)
    /\ mesa_report' = NotCalled
    /\ UNCHANGED <<mesa_task, mesa_q>>
    /\ UNCHANGED <<smVars, clockVars, revVars, envVars, payVars, supVars, rxVars,
                    loopVars, snapVars, dmVars, wsVars, consVars, wireVars,
                    detVars,
                    trashVars,
                    fsmVars>>

MesaNext ==
    MesaReviseTask \/ MesaUpdateResources \/ MesaTrashCollected \/ MesaEndOfStep

(***************************************************************************)
(* supervisor_controller.py : trash objects, their volume q, collection     *)
(***************************************************************************)
\* TIME_STEP, in ms
WsTimeStep == 64

\* R = 3.44, in hundredths
WsR100 == 344

\* spawn_trash(patch_idx): the object is imported; when getFromDef finds it,
\* it is tracked and q[patch_idx] += 1.0
spawn_trash(trash, qs, patch_idx, found) ==
    IF found
    THEN [trash |-> [trash EXCEPT ![patch_idx] = @ + 1],
          q |-> [qs EXCEPT ![patch_idx] = @ + 1]]
    ELSE [trash |-> trash, q |-> qs]

\* variant: the volume is left as it is when objects are removed
remove_trash_objects_keep_volume(trash, qs, patch_idx, count) ==
    LET removed == IF count <= 0 THEN 0
                   ELSE IF count < trash[patch_idx] THEN count ELSE trash[patch_idx]
    IN  [trash |-> [trash EXCEPT ![patch_idx] = @ - removed],
         q |-> qs, removed |-> removed]

\* remove_trash_objects(patch_idx, count): up to count tracked objects are
\* removed, each taking 1.0 from q[patch_idx], not below 0
remove_trash_objects(trash, qs, patch_idx, count) ==
    LET removed == IF count <= 0 THEN 0
                   ELSE IF count < trash[patch_idx] THEN count ELSE trash[patch_idx]
    IN  [trash |-> [trash EXCEPT ![patch_idx] = @ - removed],
         q |-> [qs EXCEPT ![patch_idx] = Max2(0, @ - removed)],
         removed |-> removed]

\* consumption_rate(qi, xi, i) in hundredths: R * saturating * xi ** BETA
\* with 0 <= saturating < 1 and 0 < xi <= 1 lies in 0 .. R; 0 for qi = 0
WsRates100(qi, xi) == IF xi = 0 \/ qi = 0 THEN {0} ELSE 0 .. WsR100

\* int(F_i * dt), dt = timestep / 1000.0
ObjectsToRemove(qi, xi) ==
    {(f * WsTimeStep) \div (100 * 1000) : f \in WsRates100(qi, xi)}

\* simulate_collection: for every patch with x[i] > 0 and a tracked object,
\* objects_to_remove = int(F_i * dt), and remove_trash_objects when it
\* is > 0.  The set of outcomes, removed the objects removed per patch.
simulate_collection(trash, qs, x) ==
    LET counts(i) == IF x.num[i] > 0 /\ trash[i] > 0
                     THEN ObjectsToRemove(qs[i], x.num[i]) ELSE {0}
        after(i, n) == IF n > 0 THEN remove_trash_objects(trash, qs, i, n)
                       ELSE [trash |-> trash, q |-> qs, removed |-> 0]
    IN  {[trash |-> [i \in Tasks |-> after(i, n[i]).trash[i]],
          q |-> [i \in Tasks |-> after(i, n[i]).q[i]],
          removed |-> [i \in Tasks |-> after(i, n[i]).removed]]
            : n \in {c \in [Tasks -> 0 .. MaxQ] : \A i \in Tasks : c[i] \in counts(i)}}

\* check_trash_spawning: a patch's spawn time has come
SpawnTrash ==
    /\ \E i \in Tasks, found \in BOOLEAN :
         /\ ws_trash[i] < MaxQ
         /\ LET r == spawn_trash(ws_trash, ws_q, i, found)
            IN  /\ ws_trash' = r.trash
                /\ ws_q' = r.q
                /\ ws_last' = [status |-> "ok", op |-> "spawn_trash", patch |-> i,
                               removed |-> [k \in Tasks |-> 0]]
    /\ UNCHANGED <<smVars, clockVars, revVars, envVars, payVars, supVars, rxVars,
                    loopVars, snapVars, dmVars, wsVars, consVars, wireVars,
                    detVars, mesaVars,
                    fsmVars>>

\* remove_trash_objects(patch_idx, count)
RemoveTrashObjects ==
    /\ \E i \in Tasks, count \in 0 .. (MaxQ + 1) :
         LET r == remove_trash_objects(ws_trash, ws_q, i, count)
         IN  /\ ws_trash' = r.trash
             /\ ws_q' = r.q
             /\ ws_last' = [status |-> "ok", op |-> "remove_trash_objects",
                            patch |-> i,
                            removed |-> [k \in Tasks |-> IF k = i THEN r.removed ELSE 0]]
    /\ UNCHANGED <<smVars, clockVars, revVars, envVars, payVars, supVars, rxVars,
                    loopVars, snapVars, dmVars, wsVars, consVars, wireVars,
                    detVars, mesaVars,
                    fsmVars>>

\* simulate_collection()
SimulateCollection ==
    /\ \E r \in simulate_collection(ws_trash, ws_q, ws_x) :
         /\ ws_trash' = r.trash
         /\ ws_q' = r.q
         /\ ws_last' = [status |-> "ok", op |-> "simulate_collection", patch |-> 0,
                        removed |-> r.removed]
    /\ UNCHANGED <<smVars, clockVars, revVars, envVars, payVars, supVars, rxVars,
                    loopVars, snapVars, dmVars, wsVars, consVars, wireVars,
                    detVars, mesaVars,
                    fsmVars>>

\* the operations on the trash objects, called in any order
TrashNext ==
    SpawnTrash \/ RemoveTrashObjects \/ SimulateCollection \/ UpdateDistribution

\* the run loop: statuses, update_distribution, check_trash_spawning,
\* simulate_collection
CollectNext ==
    WsStatusArrives \/ ReceiveRobotStatus \/ UpdateDistribution \/ SpawnTrash
        \/ SimulateCollection

(***************************************************************************)
(* finite_state_machine.py : the robot's behaviour states                   *)
(***************************************************************************)
\* Config.BASKET_CAPACITY
BASKET_CAPACITY == 10

\* FiniteStateMachine.__init__; current_task is None or <<task_id>>,
\* target_position is "none", "patch" or "dumpster", detected_object is TRUE
\* when an object position is held
FsmStart ==
    [state |-> "FORAGING", current_task |-> None, basket_count |-> 0,
     target_position |-> "none", detected_object |-> FALSE]

\* set_task(task_id)
set_task(s, task_id) ==
    IF <<task_id>> # s.current_task
    THEN [s EXCEPT !.current_task = <<task_id>>, !.state = "TRANSITION",
                   !.target_position = "patch"]
    ELSE s

\* variant: foraging goes on with a full basket
foraging_behavior_any_basket(s, obstacle, detected) ==
    IF obstacle THEN [s EXCEPT !.state = "COLLISION_AVOIDANCE"]
    ELSE IF detected
    THEN [s EXCEPT !.detected_object = TRUE, !.state = "VISUAL_SERVOING"]
    ELSE s

\* _foraging_behavior: full basket, then obstacle, then object detection
foraging_behavior(s, obstacle, detected) ==
    IF s.basket_count >= BASKET_CAPACITY
    THEN [s EXCEPT !.state = "EMPTYING_BASKET", !.target_position = "dumpster"]
    ELSE IF obstacle THEN [s EXCEPT !.state = "COLLISION_AVOIDANCE"]
    ELSE IF detected
    THEN [s EXCEPT !.detected_object = TRUE, !.state = "VISUAL_SERVOING"]
    ELSE s

\* _visual_servoing_behavior; near: obj_distance < 0.3
visual_servoing_behavior(s, near) ==
    IF ~s.detected_object THEN [s EXCEPT !.state = "FORAGING"]
    ELSE IF near THEN [s EXCEPT !.state = "OBJECT_PICKUP"]
    ELSE s

\* _pickup_behavior
pickup_behavior(s) ==
    [s EXCEPT !.basket_count = @ + 1, !.detected_object = FALSE,
              !.state = "FORAGING"]

\* _collision_avoidance_behavior; clear: max(sensor_values) < 80
collision_avoidance_behavior(s, clear) ==
    IF clear THEN [s EXCEPT !.state = "FORAGING"] ELSE s

\* _transition_behavior; near: dist < 2.0
transition_behavior(s, near) ==
    IF s.target_position = "none" THEN [s EXCEPT !.state = "FORAGING"]
    ELSE IF near
    THEN [s EXCEPT !.target_position = "none", !.state = "FORAGING"]
    ELSE s

\* _emptying_behavior; near: dist < 1.0
emptying_behavior(s, near) ==
    IF s.target_position = "none"
    THEN [s EXCEPT !.basket_count = 0, !.state = "FORAGING"]
    ELSE IF near
    THEN [s EXCEPT !.basket_count = 0, !.target_position = "none",
                   !.state = "FORAGING"]
    ELSE s

\* update(): one step of the state machine under the sensor readings
fsm_update(s, obstacle, detected, near) ==
    CASE s.state = "FORAGING" -> foraging_behavior(s, obstacle, detected)
      [] s.state = "VISUAL_SERVOING" -> visual_servoing_behavior(s, near)
      [] s.state = "OBJECT_PICKUP" -> pickup_behavior(s)
      [] s.state = "COLLISION_AVOIDANCE" -> collision_avoidance_behavior(s, ~obstacle)
      [] s.state = "TRANSITION" -> transition_behavior(s, near)
      [] s.state = "EMPTYING_BASKET" -> emptying_behavior(s, near)

\* set_task(task_id) is called
FsmSetTask ==
    /\ \E task_id \in Tasks :
         /\ fsm' = set_task(fsm, task_id)
         /\ fsm_last' = [status |-> "ok", op |-> "set_task", from |-> fsm.state]
    /\ UNCHANGED <<smVars, clockVars, revVars, envVars, payVars, supVars, rxVars,
                    loopVars, snapVars, dmVars, wsVars, consVars, wireVars,
                    detVars, mesaVars, trashVars>>

\* update() is called
FsmUpdate ==
    /\ \E obstacle \in BOOLEAN, detected \in BOOLEAN, near \in BOOLEAN :
         /\ fsm' = fsm_update(fsm, obstacle, detected, near)
         /\ fsm_last' = [status |-> "ok", op |-> "update", from |-> fsm.state]
    /\ UNCHANGED <<smVars, clockVars, revVars, envVars, payVars, supVars, rxVars,
                    loopVars, snapVars, dmVars, wsVars, consVars, wireVars,
                    detVars, mesaVars, trashVars>>

FsmNext == FsmSetTask \/ FsmUpdate

(***************************************************************************)
(* Specifications: a component's specification starts every component as   *)
(* constructed and then runs that component's operations                   *)
(***************************************************************************)
vars == <<smVars, clockVars, revVars, envVars, payVars, supVars, rxVars, loopVars,
                    snapVars, dmVars, wsVars, consVars,
                    wireVars,
                    detVars,
                    mesaVars,
                    trashVars,
                    fsmVars>>

\* StateManager and the report drain
InitState ==
    /\ robot_tasks = InitRobotTasks
    /\ robot_active = InitRobotActive
    /\ rx_queue = <<>>
    /\ drained_dup = FALSE
    /\ next_tick_time = generate_next_tick(0, 1)
    /\ total_ticks = 0
    /\ current_time = 0
    /\ tick_ret = "none"
    /\ rho = RC_RHO
    /\ current_task = 0
    /\ payoffs = [i \in Tasks |-> 0]
    /\ probs = NotCalled
    /\ rc_probs = NotCalled
    /\ select_ret = NotCalled
    /\ q = EnvStartQ
    /\ w = EnvStartW
    /\ env_call = NoCall
    /\ nu = 0
    /\ gamma_star = None
    /\ x_star = None
    /\ payoff_ret = [impl |-> "none"]
    /\ sup_status = "constructed"
    /\ sup_time = 0
    /\ last_broadcast_time = 0
    /\ experiment_config = [kind |-> "none"]
    /\ sup_x = NotCalled
    /\ emitted = <<>>
    /\ agent_rx = <<>>
    /\ agent_q = AgentStartQ
    /\ agent_x = AgentStartX
    /\ rx_drained = NothingDrained
    /\ current_patch = AgentId % NumTasks
    /\ target_patch = AgentId % NumTasks
    /\ robot_state = "FORAGING"
    /\ trash_collected = 0
    /\ agent_time = 0
    /\ last_revision_time = 0
    /\ next_revision_time = 1
    /\ agent_tx = <<>>
    /\ disabled = FALSE
    /\ agent_did = NoStep
    /\ returned_q = NotReturned
    /\ returned_w = NotReturned
    /\ dm_robot_id = AgentId
    /\ dm_current_task = None
    /\ dm_latest_q = None
    /\ dm_latest_x = None
    /\ dm_latest_w = None
    /\ dm_ret = NotCalled
    /\ robot_assignments = WsStartAssignments
    /\ ws_x = WsStartX
    /\ ws_rx = <<>>
    /\ ws_statuses = 0
    /\ cons_ret = NotCalled
    /\ wire_msg = None
    /\ wire_bytes = None
    /\ wire_back = NotCalled
    /\ rng = RngStart
    /\ run_time = 0
    /\ run_a = RunStart(RngStart)
    /\ run_b = RunStart(RngStart)
    /\ mesa_task = MesaStartTasks
    /\ mesa_x = update_population_distribution(MesaStartTasks)
    /\ mesa_q = MesaStartQ
    /\ mesa_report = NotCalled
    /\ ws_q = [i \in Tasks |-> 0]
    /\ ws_trash = [i \in Tasks |-> 0]
    /\ ws_last = NotCalled
    /\ fsm = FsmStart
    /\ fsm_last = NotCalled

\* PoissonClock: __init__ makes the first draw
InitClock ==
    /\ robot_tasks = InitRobotTasks
    /\ robot_active = InitRobotActive
    /\ rx_queue = <<>>
    /\ drained_dup = FALSE
    /\ next_tick_time \in {generate_next_tick(0, d) : d \in InterArrivals}
    /\ total_ticks = 0
    /\ current_time = 0
    /\ tick_ret = "none"
    /\ rho = RC_RHO
    /\ current_task = 0
    /\ payoffs = [i \in Tasks |-> 0]
    /\ probs = NotCalled
    /\ rc_probs = NotCalled
    /\ select_ret = NotCalled
    /\ q = EnvStartQ
    /\ w = EnvStartW
    /\ env_call = NoCall
    /\ nu = 0
    /\ gamma_star = None
    /\ x_star = None
    /\ payoff_ret = [impl |-> "none"]
    /\ sup_status = "constructed"
    /\ sup_time = 0
    /\ last_broadcast_time = 0
    /\ experiment_config = [kind |-> "none"]
    /\ sup_x = NotCalled
    /\ emitted = <<>>
    /\ agent_rx = <<>>
    /\ agent_q = AgentStartQ
    /\ agent_x = AgentStartX
    /\ rx_drained = NothingDrained
    /\ current_patch = AgentId % NumTasks
    /\ target_patch = AgentId % NumTasks
    /\ robot_state = "FORAGING"
    /\ trash_collected = 0
    /\ agent_time = 0
    /\ last_revision_time = 0
    /\ next_revision_time = 1
    /\ agent_tx = <<>>
    /\ disabled = FALSE
    /\ agent_did = NoStep
    /\ returned_q = NotReturned
    /\ returned_w = NotReturned
    /\ dm_robot_id = AgentId
    /\ dm_current_task = None
    /\ dm_latest_q = None
    /\ dm_latest_x = None
    /\ dm_latest_w = None
    /\ dm_ret = NotCalled
    /\ robot_assignments = WsStartAssignments
    /\ ws_x = WsStartX
    /\ ws_rx = <<>>
    /\ ws_statuses = 0
    /\ cons_ret = NotCalled
    /\ wire_msg = None
    /\ wire_bytes = None
    /\ wire_back = NotCalled
    /\ rng = RngStart
    /\ run_time = 0
    /\ run_a = RunStart(RngStart)
    /\ run_b = RunStart(RngStart)
    /\ mesa_task = MesaStartTasks
    /\ mesa_x = update_population_distribution(MesaStartTasks)
    /\ mesa_q = MesaStartQ
    /\ mesa_report = NotCalled
    /\ ws_q = [i \in Tasks |-> 0]
    /\ ws_trash = [i \in Tasks |-> 0]
    /\ ws_last = NotCalled
    /\ fsm = FsmStart
    /\ fsm_last = NotCalled

\* RevisionProtocol: the rate, the robot's task and the payoffs are inputs
InitRevision ==
    /\ robot_tasks = InitRobotTasks
    /\ robot_active = InitRobotActive
    /\ rx_queue = <<>>
    /\ drained_dup = FALSE
    /\ next_tick_time = generate_next_tick(0, 1)
    /\ total_ticks = 0
    /\ current_time = 0
    /\ tick_ret = "none"
    /\ rho \in Rhos
    /\ current_task \in Tasks
    /\ payoffs \in PayoffVectors
    /\ probs = NotCalled
    /\ rc_probs = NotCalled
    /\ select_ret = NotCalled
    /\ q = EnvStartQ
    /\ w = EnvStartW
    /\ env_call = NoCall
    /\ nu = 0
    /\ gamma_star = None
    /\ x_star = None
    /\ payoff_ret = [impl |-> "none"]
    /\ sup_status = "constructed"
    /\ sup_time = 0
    /\ last_broadcast_time = 0
    /\ experiment_config = [kind |-> "none"]
    /\ sup_x = NotCalled
    /\ emitted = <<>>
    /\ agent_rx = <<>>
    /\ agent_q = AgentStartQ
    /\ agent_x = AgentStartX
    /\ rx_drained = NothingDrained
    /\ current_patch = AgentId % NumTasks
    /\ target_patch = AgentId % NumTasks
    /\ robot_state = "FORAGING"
    /\ trash_collected = 0
    /\ agent_time = 0
    /\ last_revision_time = 0
    /\ next_revision_time = 1
    /\ agent_tx = <<>>
    /\ disabled = FALSE
    /\ agent_did = NoStep
    /\ returned_q = NotReturned
    /\ returned_w = NotReturned
    /\ dm_robot_id = AgentId
    /\ dm_current_task = None
    /\ dm_latest_q = None
    /\ dm_latest_x = None
    /\ dm_latest_w = None
    /\ dm_ret = NotCalled
    /\ robot_assignments = WsStartAssignments
    /\ ws_x = WsStartX
    /\ ws_rx = <<>>
    /\ ws_statuses = 0
    /\ cons_ret = NotCalled
    /\ wire_msg = None
    /\ wire_bytes = None
    /\ wire_back = NotCalled
    /\ rng = RngStart
    /\ run_time = 0
    /\ run_a = RunStart(RngStart)
    /\ run_b = RunStart(RngStart)
    /\ mesa_task = MesaStartTasks
    /\ mesa_x = update_population_distribution(MesaStartTasks)
    /\ mesa_q = MesaStartQ
    /\ mesa_report = NotCalled
    /\ ws_q = [i \in Tasks |-> 0]
    /\ ws_trash = [i \in Tasks |-> 0]
    /\ ws_last = NotCalled
    /\ fsm = FsmStart
    /\ fsm_last = NotCalled

\* EnvironmentModel as the supervisor constructs it
InitEnv ==
    /\ robot_tasks = InitRobotTasks
    /\ robot_active = InitRobotActive
    /\ rx_queue = <<>>
    /\ drained_dup = FALSE
    /\ next_tick_time = generate_next_tick(0, 1)
    /\ total_ticks = 0
    /\ current_time = 0
    /\ tick_ret = "none"
    /\ rho = RC_RHO
    /\ current_task = 0
    /\ payoffs = [i \in Tasks |-> 0]
    /\ probs = NotCalled
    /\ rc_probs = NotCalled
    /\ select_ret = NotCalled
    /\ q = EnvStartQ
    /\ w = EnvStartW
    /\ env_call = NoCall
    /\ nu = 0
    /\ gamma_star = None
    /\ x_star = None
    /\ payoff_ret = [impl |-> "none"]
    /\ sup_status = "constructed"
    /\ sup_time = 0
    /\ last_broadcast_time = 0
    /\ experiment_config = [kind |-> "none"]
    /\ sup_x = NotCalled
    /\ emitted = <<>>
    /\ agent_rx = <<>>
    /\ agent_q = AgentStartQ
    /\ agent_x = AgentStartX
    /\ rx_drained = NothingDrained
    /\ current_patch = AgentId % NumTasks
    /\ target_patch = AgentId % NumTasks
    /\ robot_state = "FORAGING"
    /\ trash_collected = 0
    /\ agent_time = 0
    /\ last_revision_time = 0
    /\ next_revision_time = 1
    /\ agent_tx = <<>>
    /\ disabled = FALSE
    /\ agent_did = NoStep
    /\ returned_q = NotReturned
    /\ returned_w = NotReturned
    /\ dm_robot_id = AgentId
    /\ dm_current_task = None
    /\ dm_latest_q = None
    /\ dm_latest_x = None
    /\ dm_latest_w = None
    /\ dm_ret = NotCalled
    /\ robot_assignments = WsStartAssignments
    /\ ws_x = WsStartX
    /\ ws_rx = <<>>
    /\ ws_statuses = 0
    /\ cons_ret = NotCalled
    /\ wire_msg = None
    /\ wire_bytes = None
    /\ wire_back = NotCalled
    /\ rng = RngStart
    /\ run_time = 0
    /\ run_a = RunStart(RngStart)
    /\ run_b = RunStart(RngStart)
    /\ mesa_task = MesaStartTasks
    /\ mesa_x = update_population_distribution(MesaStartTasks)
    /\ mesa_q = MesaStartQ
    /\ mesa_report = NotCalled
    /\ ws_q = [i \in Tasks |-> 0]
    /\ ws_trash = [i \in Tasks |-> 0]
    /\ ws_last = NotCalled
    /\ fsm = FsmStart
    /\ fsm_last = NotCalled

\* PayoffMechanism(nu): no equilibrium until set_equilibrium
InitPayoff ==
    /\ robot_tasks = InitRobotTasks
    /\ robot_active = InitRobotActive
    /\ rx_queue = <<>>
    /\ drained_dup = FALSE
    /\ next_tick_time = generate_next_tick(0, 1)
    /\ total_ticks = 0
    /\ current_time = 0
    /\ tick_ret = "none"
    /\ rho = RC_RHO
    /\ current_task = 0
    /\ payoffs = [i \in Tasks |-> 0]
    /\ probs = NotCalled
    /\ rc_probs = NotCalled
    /\ select_ret = NotCalled
    /\ q = EnvStartQ
    /\ w = EnvStartW
    /\ env_call = NoCall
    /\ nu \in NuValues
    /\ gamma_star = None
    /\ x_star = None
    /\ payoff_ret = [impl |-> "none"]
    /\ sup_status = "constructed"
    /\ sup_time = 0
    /\ last_broadcast_time = 0
    /\ experiment_config = [kind |-> "none"]
    /\ sup_x = NotCalled
    /\ emitted = <<>>
    /\ agent_rx = <<>>
    /\ agent_q = AgentStartQ
    /\ agent_x = AgentStartX
    /\ rx_drained = NothingDrained
    /\ current_patch = AgentId % NumTasks
    /\ target_patch = AgentId % NumTasks
    /\ robot_state = "FORAGING"
    /\ trash_collected = 0
    /\ agent_time = 0
    /\ last_revision_time = 0
    /\ next_revision_time = 1
    /\ agent_tx = <<>>
    /\ disabled = FALSE
    /\ agent_did = NoStep
    /\ returned_q = NotReturned
    /\ returned_w = NotReturned
    /\ dm_robot_id = AgentId
    /\ dm_current_task = None
    /\ dm_latest_q = None
    /\ dm_latest_x = None
    /\ dm_latest_w = None
    /\ dm_ret = NotCalled
    /\ robot_assignments = WsStartAssignments
    /\ ws_x = WsStartX
    /\ ws_rx = <<>>
    /\ ws_statuses = 0
    /\ cons_ret = NotCalled
    /\ wire_msg = None
    /\ wire_bytes = None
    /\ wire_back = NotCalled
    /\ rng = RngStart
    /\ run_time = 0
    /\ run_a = RunStart(RngStart)
    /\ run_b = RunStart(RngStart)
    /\ mesa_task = MesaStartTasks
    /\ mesa_x = update_population_distribution(MesaStartTasks)
    /\ mesa_q = MesaStartQ
    /\ mesa_report = NotCalled
    /\ ws_q = [i \in Tasks |-> 0]
    /\ ws_trash = [i \in Tasks |-> 0]
    /\ ws_last = NotCalled
    /\ fsm = FsmStart
    /\ fsm_last = NotCalled

\* SupervisorController.__init__ and set_experiment
InitSupervisor ==
    /\ robot_tasks = InitRobotTasks
    /\ robot_active = InitRobotActive
    /\ rx_queue = <<>>
    /\ drained_dup = FALSE
    /\ next_tick_time = generate_next_tick(0, 1)
    /\ total_ticks = 0
    /\ current_time = 0
    /\ tick_ret = "none"
    /\ rho = RC_RHO
    /\ current_task = 0
    /\ payoffs = [i \in Tasks |-> 0]
    /\ probs = NotCalled
    /\ rc_probs = NotCalled
    /\ select_ret = NotCalled
    /\ q = EnvStartQ
    /\ w = EnvStartW
    /\ env_call = NoCall
    /\ nu = 0
    /\ gamma_star = None
    /\ x_star = None
    /\ payoff_ret = [impl |-> "none"]
    /\ sup_status = "constructed"
    /\ sup_time = 0
    /\ last_broadcast_time = 0
    /\ experiment_config \in ExperimentConfigs
    /\ sup_x = NotCalled
    /\ emitted = <<>>
    /\ agent_rx = <<>>
    /\ agent_q = AgentStartQ
    /\ agent_x = AgentStartX
    /\ rx_drained = NothingDrained
    /\ current_patch = AgentId % NumTasks
    /\ target_patch = AgentId % NumTasks
    /\ robot_state = "FORAGING"
    /\ trash_collected = 0
    /\ agent_time = 0
    /\ last_revision_time = 0
    /\ next_revision_time = 1
    /\ agent_tx = <<>>
    /\ disabled = FALSE
    /\ agent_did = NoStep
    /\ returned_q = NotReturned
    /\ returned_w = NotReturned
    /\ dm_robot_id = AgentId
    /\ dm_current_task = None
    /\ dm_latest_q = None
    /\ dm_latest_x = None
    /\ dm_latest_w = None
    /\ dm_ret = NotCalled
    /\ robot_assignments = WsStartAssignments
    /\ ws_x = WsStartX
    /\ ws_rx = <<>>
    /\ ws_statuses = 0
    /\ cons_ret = NotCalled
    /\ wire_msg = None
    /\ wire_bytes = None
    /\ wire_back = NotCalled
    /\ rng = RngStart
    /\ run_time = 0
    /\ run_a = RunStart(RngStart)
    /\ run_b = RunStart(RngStart)
    /\ mesa_task = MesaStartTasks
    /\ mesa_x = update_population_distribution(MesaStartTasks)
    /\ mesa_q = MesaStartQ
    /\ mesa_report = NotCalled
    /\ ws_q = [i \in Tasks |-> 0]
    /\ ws_trash = [i \in Tasks |-> 0]
    /\ ws_last = NotCalled
    /\ fsm = FsmStart
    /\ fsm_last = NotCalled

\* SupervisorController.__init__, no experiment set
InitIntake ==
    /\ robot_tasks = InitRobotTasks
    /\ robot_active = InitRobotActive
    /\ rx_queue = <<>>
    /\ drained_dup = FALSE
    /\ next_tick_time = generate_next_tick(0, 1)
    /\ total_ticks = 0
    /\ current_time = 0
    /\ tick_ret = "none"
    /\ rho = RC_RHO
    /\ current_task = 0
    /\ payoffs = [i \in Tasks |-> 0]
    /\ probs = NotCalled
    /\ rc_probs = NotCalled
    /\ select_ret = NotCalled
    /\ q = EnvStartQ
    /\ w = EnvStartW
    /\ env_call = NoCall
    /\ nu = 0
    /\ gamma_star = None
    /\ x_star = None
    /\ payoff_ret = [impl |-> "none"]
    /\ sup_status = "constructed"
    /\ sup_time = 0
    /\ last_broadcast_time = 0
    /\ experiment_config = [kind |-> "none"]
    /\ sup_x = NotCalled
    /\ emitted = <<>>
    /\ agent_rx = <<>>
    /\ agent_q = AgentStartQ
    /\ agent_x = AgentStartX
    /\ rx_drained = NothingDrained
    /\ current_patch = AgentId % NumTasks
    /\ target_patch = AgentId % NumTasks
    /\ robot_state = "FORAGING"
    /\ trash_collected = 0
    /\ agent_time = 0
    /\ last_revision_time = 0
    /\ next_revision_time = 1
    /\ agent_tx = <<>>
    /\ disabled = FALSE
    /\ agent_did = NoStep
    /\ returned_q = NotReturned
    /\ returned_w = NotReturned
    /\ dm_robot_id = AgentId
    /\ dm_current_task = None
    /\ dm_latest_q = None
    /\ dm_latest_x = None
    /\ dm_latest_w = None
    /\ dm_ret = NotCalled
    /\ robot_assignments = WsStartAssignments
    /\ ws_x = WsStartX
    /\ ws_rx = <<>>
    /\ ws_statuses = 0
    /\ cons_ret = NotCalled
    /\ wire_msg = None
    /\ wire_bytes = None
    /\ wire_back = NotCalled
    /\ rng = RngStart
    /\ run_time = 0
    /\ run_a = RunStart(RngStart)
    /\ run_b = RunStart(RngStart)
    /\ mesa_task = MesaStartTasks
    /\ mesa_x = update_population_distribution(MesaStartTasks)
    /\ mesa_q = MesaStartQ
    /\ mesa_report = NotCalled
    /\ ws_q = [i \in Tasks |-> 0]
    /\ ws_trash = [i \in Tasks |-> 0]
    /\ ws_last = NotCalled
    /\ fsm = FsmStart
    /\ fsm_last = NotCalled

\* RobotController.__init__: the receiver and the cached state
InitReceive ==
    /\ robot_tasks = InitRobotTasks
    /\ robot_active = InitRobotActive
    /\ rx_queue = <<>>
    /\ drained_dup = FALSE
    /\ next_tick_time = generate_next_tick(0, 1)
    /\ total_ticks = 0
    /\ current_time = 0
    /\ tick_ret = "none"
    /\ rho = RC_RHO
    /\ current_task = 0
    /\ payoffs = [i \in Tasks |-> 0]
    /\ probs = NotCalled
    /\ rc_probs = NotCalled
    /\ select_ret = NotCalled
    /\ q = EnvStartQ
    /\ w = EnvStartW
    /\ env_call = NoCall
    /\ nu = 0
    /\ gamma_star = None
    /\ x_star = None
    /\ payoff_ret = [impl |-> "none"]
    /\ sup_status = "constructed"
    /\ sup_time = 0
    /\ last_broadcast_time = 0
    /\ experiment_config = [kind |-> "none"]
    /\ sup_x = NotCalled
    /\ emitted = <<>>
    /\ agent_rx = <<>>
    /\ agent_q = AgentStartQ
    /\ agent_x = AgentStartX
    /\ rx_drained = NothingDrained
    /\ current_patch = AgentId % NumTasks
    /\ target_patch = AgentId % NumTasks
    /\ robot_state = "FORAGING"
    /\ trash_collected = 0
    /\ agent_time = 0
    /\ last_revision_time = 0
    /\ next_revision_time = 1
    /\ agent_tx = <<>>
    /\ disabled = FALSE
    /\ agent_did = NoStep
    /\ returned_q = NotReturned
    /\ returned_w = NotReturned
    /\ dm_robot_id = AgentId
    /\ dm_current_task = None
    /\ dm_latest_q = None
    /\ dm_latest_x = None
    /\ dm_latest_w = None
    /\ dm_ret = NotCalled
    /\ robot_assignments = WsStartAssignments
    /\ ws_x = WsStartX
    /\ ws_rx = <<>>
    /\ ws_statuses = 0
    /\ cons_ret = NotCalled
    /\ wire_msg = None
    /\ wire_bytes = None
    /\ wire_back = NotCalled
    /\ rng = RngStart
    /\ run_time = 0
    /\ run_a = RunStart(RngStart)
    /\ run_b = RunStart(RngStart)
    /\ mesa_task = MesaStartTasks
    /\ mesa_x = update_population_distribution(MesaStartTasks)
    /\ mesa_q = MesaStartQ
    /\ mesa_report = NotCalled
    /\ ws_q = [i \in Tasks |-> 0]
    /\ ws_trash = [i \in Tasks |-> 0]
    /\ ws_last = NotCalled
    /\ fsm = FsmStart
    /\ fsm_last = NotCalled

\* RobotController.__init__: the first revision time is sampled
InitAgent ==
    /\ robot_tasks = InitRobotTasks
    /\ robot_active = InitRobotActive
    /\ rx_queue = <<>>
    /\ drained_dup = FALSE
    /\ next_tick_time = generate_next_tick(0, 1)
    /\ total_ticks = 0
    /\ current_time = 0
    /\ tick_ret = "none"
    /\ rho = RC_RHO
    /\ current_task = 0
    /\ payoffs = [i \in Tasks |-> 0]
    /\ probs = NotCalled
    /\ rc_probs = NotCalled
    /\ select_ret = NotCalled
    /\ q = EnvStartQ
    /\ w = EnvStartW
    /\ env_call = NoCall
    /\ nu = 0
    /\ gamma_star = None
    /\ x_star = None
    /\ payoff_ret = [impl |-> "none"]
    /\ sup_status = "constructed"
    /\ sup_time = 0
    /\ last_broadcast_time = 0
    /\ experiment_config = [kind |-> "none"]
    /\ sup_x = NotCalled
    /\ emitted = <<>>
    /\ agent_rx = <<>>
    /\ agent_q = AgentStartQ
    /\ agent_x = AgentStartX
    /\ rx_drained = NothingDrained
    /\ current_patch = AgentId % NumTasks
    /\ target_patch = AgentId % NumTasks
    /\ robot_state = "FORAGING"
    /\ trash_collected = 0
    /\ agent_time = 0
    /\ last_revision_time = 0
    /\ next_revision_time \in InterArrivals
    /\ agent_tx = <<>>
    /\ disabled = FALSE
    /\ agent_did = NoStep
    /\ returned_q = NotReturned
    /\ returned_w = NotReturned
    /\ dm_robot_id = AgentId
    /\ dm_current_task = None
    /\ dm_latest_q = None
    /\ dm_latest_x = None
    /\ dm_latest_w = None
    /\ dm_ret = NotCalled
    /\ robot_assignments = WsStartAssignments
    /\ ws_x = WsStartX
    /\ ws_rx = <<>>
    /\ ws_statuses = 0
    /\ cons_ret = NotCalled
    /\ wire_msg = None
    /\ wire_bytes = None
    /\ wire_back = NotCalled
    /\ rng = RngStart
    /\ run_time = 0
    /\ run_a = RunStart(RngStart)
    /\ run_b = RunStart(RngStart)
    /\ mesa_task = MesaStartTasks
    /\ mesa_x = update_population_distribution(MesaStartTasks)
    /\ mesa_q = MesaStartQ
    /\ mesa_report = NotCalled
    /\ ws_q = [i \in Tasks |-> 0]
    /\ ws_trash = [i \in Tasks |-> 0]
    /\ ws_last = NotCalled
    /\ fsm = FsmStart
    /\ fsm_last = NotCalled

\* EnvironmentModel as the supervisor constructs it, no list handed out
InitSnapshot ==
    /\ robot_tasks = InitRobotTasks
    /\ robot_active = InitRobotActive
    /\ rx_queue = <<>>
    /\ drained_dup = FALSE
    /\ next_tick_time = generate_next_tick(0, 1)
    /\ total_ticks = 0
    /\ current_time = 0
    /\ tick_ret = "none"
    /\ rho = RC_RHO
    /\ current_task = 0
    /\ payoffs = [i \in Tasks |-> 0]
    /\ probs = NotCalled
    /\ rc_probs = NotCalled
    /\ select_ret = NotCalled
    /\ q = EnvStartQ
    /\ w = EnvStartW
    /\ env_call = NoCall
    /\ nu = 0
    /\ gamma_star = None
    /\ x_star = None
    /\ payoff_ret = [impl |-> "none"]
    /\ sup_status = "constructed"
    /\ sup_time = 0
    /\ last_broadcast_time = 0
    /\ experiment_config = [kind |-> "none"]
    /\ sup_x = NotCalled
    /\ emitted = <<>>
    /\ agent_rx = <<>>
    /\ agent_q = AgentStartQ
    /\ agent_x = AgentStartX
    /\ rx_drained = NothingDrained
    /\ current_patch = AgentId % NumTasks
    /\ target_patch = AgentId % NumTasks
    /\ robot_state = "FORAGING"
    /\ trash_collected = 0
    /\ agent_time = 0
    /\ last_revision_time = 0
    /\ next_revision_time = 1
    /\ agent_tx = <<>>
    /\ disabled = FALSE
    /\ agent_did = NoStep
    /\ returned_q = NotReturned
    /\ returned_w = NotReturned
    /\ dm_robot_id = AgentId
    /\ dm_current_task = None
    /\ dm_latest_q = None
    /\ dm_latest_x = None
    /\ dm_latest_w = None
    /\ dm_ret = NotCalled
    /\ robot_assignments = WsStartAssignments
    /\ ws_x = WsStartX
    /\ ws_rx = <<>>
    /\ ws_statuses = 0
    /\ cons_ret = NotCalled
    /\ wire_msg = None
    /\ wire_bytes = None
    /\ wire_back = NotCalled
    /\ rng = RngStart
    /\ run_time = 0
    /\ run_a = RunStart(RngStart)
    /\ run_b = RunStart(RngStart)
    /\ mesa_task = MesaStartTasks
    /\ mesa_x = update_population_distribution(MesaStartTasks)
    /\ mesa_q = MesaStartQ
    /\ mesa_report = NotCalled
    /\ ws_q = [i \in Tasks |-> 0]
    /\ ws_trash = [i \in Tasks |-> 0]
    /\ ws_last = NotCalled
    /\ fsm = FsmStart
    /\ fsm_last = NotCalled

\* DecisionMaker(robot_id, nu)
InitDecision ==
    /\ robot_tasks = InitRobotTasks
    /\ robot_active = InitRobotActive
    /\ rx_queue = <<>>
    /\ drained_dup = FALSE
    /\ next_tick_time = generate_next_tick(0, 1)
    /\ total_ticks = 0
    /\ current_time = 0
    /\ tick_ret = "none"
    /\ rho = RC_RHO
    /\ current_task = 0
    /\ payoffs = [i \in Tasks |-> 0]
    /\ probs = NotCalled
    /\ rc_probs = NotCalled
    /\ select_ret = NotCalled
    /\ q = EnvStartQ
    /\ w = EnvStartW
    /\ env_call = NoCall
    /\ nu \in NuValues
    /\ gamma_star = None
    /\ x_star = None
    /\ payoff_ret = [impl |-> "none"]
    /\ sup_status = "constructed"
    /\ sup_time = 0
    /\ last_broadcast_time = 0
    /\ experiment_config = [kind |-> "none"]
    /\ sup_x = NotCalled
    /\ emitted = <<>>
    /\ agent_rx = <<>>
    /\ agent_q = AgentStartQ
    /\ agent_x = AgentStartX
    /\ rx_drained = NothingDrained
    /\ current_patch = AgentId % NumTasks
    /\ target_patch = AgentId % NumTasks
    /\ robot_state = "FORAGING"
    /\ trash_collected = 0
    /\ agent_time = 0
    /\ last_revision_time = 0
    /\ next_revision_time = 1
    /\ agent_tx = <<>>
    /\ disabled = FALSE
    /\ agent_did = NoStep
    /\ returned_q = NotReturned
    /\ returned_w = NotReturned
    /\ dm_robot_id \in Robots
    /\ dm_current_task = None
    /\ dm_latest_q = None
    /\ dm_latest_x = None
    /\ dm_latest_w = None
    /\ dm_ret = NotCalled
    /\ robot_assignments = WsStartAssignments
    /\ ws_x = WsStartX
    /\ ws_rx = <<>>
    /\ ws_statuses = 0
    /\ cons_ret = NotCalled
    /\ wire_msg = None
    /\ wire_bytes = None
    /\ wire_back = NotCalled
    /\ rng = RngStart
    /\ run_time = 0
    /\ run_a = RunStart(RngStart)
    /\ run_b = RunStart(RngStart)
    /\ mesa_task = MesaStartTasks
    /\ mesa_x = update_population_distribution(MesaStartTasks)
    /\ mesa_q = MesaStartQ
    /\ mesa_report = NotCalled
    /\ ws_q = [i \in Tasks |-> 0]
    /\ ws_trash = [i \in Tasks |-> 0]
    /\ ws_last = NotCalled
    /\ fsm = FsmStart
    /\ fsm_last = NotCalled

\* SupervisorController.__init__ of supervisor_controller.py
InitWebots ==
    /\ robot_tasks = InitRobotTasks
    /\ robot_active = InitRobotActive
    /\ rx_queue = <<>>
    /\ drained_dup = FALSE
    /\ next_tick_time = generate_next_tick(0, 1)
    /\ total_ticks = 0
    /\ current_time = 0
    /\ tick_ret = "none"
    /\ rho = RC_RHO
    /\ current_task = 0
    /\ payoffs = [i \in Tasks |-> 0]
    /\ probs = NotCalled
    /\ rc_probs = NotCalled
    /\ select_ret = NotCalled
    /\ q = EnvStartQ
    /\ w = EnvStartW
    /\ env_call = NoCall
    /\ nu = 0
    /\ gamma_star = None
    /\ x_star = None
    /\ payoff_ret = [impl |-> "none"]
    /\ sup_status = "constructed"
    /\ sup_time = 0
    /\ last_broadcast_time = 0
    /\ experiment_config = [kind |-> "none"]
    /\ sup_x = NotCalled
    /\ emitted = <<>>
    /\ agent_rx = <<>>
    /\ agent_q = AgentStartQ
    /\ agent_x = AgentStartX
    /\ rx_drained = NothingDrained
    /\ current_patch = AgentId % NumTasks
    /\ target_patch = AgentId % NumTasks
    /\ robot_state = "FORAGING"
    /\ trash_collected = 0
    /\ agent_time = 0
    /\ last_revision_time = 0
    /\ next_revision_time = 1
    /\ agent_tx = <<>>
    /\ disabled = FALSE
    /\ agent_did = NoStep
    /\ returned_q = NotReturned
    /\ returned_w = NotReturned
    /\ dm_robot_id = AgentId
    /\ dm_current_task = None
    /\ dm_latest_q = None
    /\ dm_latest_x = None
    /\ dm_latest_w = None
    /\ dm_ret = NotCalled
    /\ robot_assignments = WsStartAssignments
    /\ ws_x = WsStartX
    /\ ws_rx = <<>>
    /\ ws_statuses = 0
    /\ cons_ret = NotCalled
    /\ wire_msg = None
    /\ wire_bytes = None
    /\ wire_back = NotCalled
    /\ rng = RngStart
    /\ run_time = 0
    /\ run_a = RunStart(RngStart)
    /\ run_b = RunStart(RngStart)
    /\ mesa_task = MesaStartTasks
    /\ mesa_x = update_population_distribution(MesaStartTasks)
    /\ mesa_q = MesaStartQ
    /\ mesa_report = NotCalled
    /\ ws_q = [i \in Tasks |-> 0]
    /\ ws_trash = [i \in Tasks |-> 0]
    /\ ws_last = NotCalled
    /\ fsm = FsmStart
    /\ fsm_last = NotCalled

\* no consumption function called yet
InitConsumption ==
    /\ robot_tasks = InitRobotTasks
    /\ robot_active = InitRobotActive
    /\ rx_queue = <<>>
    /\ drained_dup = FALSE
    /\ next_tick_time = generate_next_tick(0, 1)
    /\ total_ticks = 0
    /\ current_time = 0
    /\ tick_ret = "none"
    /\ rho = RC_RHO
    /\ current_task = 0
    /\ payoffs = [i \in Tasks |-> 0]
    /\ probs = NotCalled
    /\ rc_probs = NotCalled
    /\ select_ret = NotCalled
    /\ q = EnvStartQ
    /\ w = EnvStartW
    /\ env_call = NoCall
    /\ nu = 0
    /\ gamma_star = None
    /\ x_star = None
    /\ payoff_ret = [impl |-> "none"]
    /\ sup_status = "constructed"
    /\ sup_time = 0
    /\ last_broadcast_time = 0
    /\ experiment_config = [kind |-> "none"]
    /\ sup_x = NotCalled
    /\ emitted = <<>>
    /\ agent_rx = <<>>
    /\ agent_q = AgentStartQ
    /\ agent_x = AgentStartX
    /\ rx_drained = NothingDrained
    /\ current_patch = AgentId % NumTasks
    /\ target_patch = AgentId % NumTasks
    /\ robot_state = "FORAGING"
    /\ trash_collected = 0
    /\ agent_time = 0
    /\ last_revision_time = 0
    /\ next_revision_time = 1
    /\ agent_tx = <<>>
    /\ disabled = FALSE
    /\ agent_did = NoStep
    /\ returned_q = NotReturned
    /\ returned_w = NotReturned
    /\ dm_robot_id = AgentId
    /\ dm_current_task = None
    /\ dm_latest_q = None
    /\ dm_latest_x = None
    /\ dm_latest_w = None
    /\ dm_ret = NotCalled
    /\ robot_assignments = WsStartAssignments
    /\ ws_x = WsStartX
    /\ ws_rx = <<>>
    /\ ws_statuses = 0
    /\ cons_ret = NotCalled
    /\ wire_msg = None
    /\ wire_bytes = None
    /\ wire_back = NotCalled
    /\ rng = RngStart
    /\ run_time = 0
    /\ run_a = RunStart(RngStart)
    /\ run_b = RunStart(RngStart)
    /\ mesa_task = MesaStartTasks
    /\ mesa_x = update_population_distribution(MesaStartTasks)
    /\ mesa_q = MesaStartQ
    /\ mesa_report = NotCalled
    /\ ws_q = [i \in Tasks |-> 0]
    /\ ws_trash = [i \in Tasks |-> 0]
    /\ ws_last = NotCalled
    /\ fsm = FsmStart
    /\ fsm_last = NotCalled

\* no message built yet
InitWire ==
    /\ robot_tasks = InitRobotTasks
    /\ robot_active = InitRobotActive
    /\ rx_queue = <<>>
    /\ drained_dup = FALSE
    /\ next_tick_time = generate_next_tick(0, 1)
    /\ total_ticks = 0
    /\ current_time = 0
    /\ tick_ret = "none"
    /\ rho = RC_RHO
    /\ current_task = 0
    /\ payoffs = [i \in Tasks |-> 0]
    /\ probs = NotCalled
    /\ rc_probs = NotCalled
    /\ select_ret = NotCalled
    /\ q = EnvStartQ
    /\ w = EnvStartW
    /\ env_call = NoCall
    /\ nu = 0
    /\ gamma_star = None
    /\ x_star = None
    /\ payoff_ret = [impl |-> "none"]
    /\ sup_status = "constructed"
    /\ sup_time = 0
    /\ last_broadcast_time = 0
    /\ experiment_config = [kind |-> "none"]
    /\ sup_x = NotCalled
    /\ emitted = <<>>
    /\ agent_rx = <<>>
    /\ agent_q = AgentStartQ
    /\ agent_x = AgentStartX
    /\ rx_drained = NothingDrained
    /\ current_patch = AgentId % NumTasks
    /\ target_patch = AgentId % NumTasks
    /\ robot_state = "FORAGING"
    /\ trash_collected = 0
    /\ agent_time = 0
    /\ last_revision_time = 0
    /\ next_revision_time = 1
    /\ agent_tx = <<>>
    /\ disabled = FALSE
    /\ agent_did = NoStep
    /\ returned_q = NotReturned
    /\ returned_w = NotReturned
    /\ dm_robot_id = AgentId
    /\ dm_current_task = None
    /\ dm_latest_q = None
    /\ dm_latest_x = None
    /\ dm_latest_w = None
    /\ dm_ret = NotCalled
    /\ robot_assignments = WsStartAssignments
    /\ ws_x = WsStartX
    /\ ws_rx = <<>>
    /\ ws_statuses = 0
    /\ cons_ret = NotCalled
    /\ wire_msg = None
    /\ wire_bytes = None
    /\ wire_back = NotCalled
    /\ rng = RngStart
    /\ run_time = 0
    /\ run_a = RunStart(RngStart)
    /\ run_b = RunStart(RngStart)
    /\ mesa_task = MesaStartTasks
    /\ mesa_x = update_population_distribution(MesaStartTasks)
    /\ mesa_q = MesaStartQ
    /\ mesa_report = NotCalled
    /\ ws_q = [i \in Tasks |-> 0]
    /\ ws_trash = [i \in Tasks |-> 0]
    /\ ws_last = NotCalled
    /\ fsm = FsmStart
    /\ fsm_last = NotCalled

\* ResourceModel.__init__
InitMesa ==
    /\ robot_tasks = InitRobotTasks
    /\ robot_active = InitRobotActive
    /\ rx_queue = <<>>
    /\ drained_dup = FALSE
    /\ next_tick_time = generate_next_tick(0, 1)
    /\ total_ticks = 0
    /\ current_time = 0
    /\ tick_ret = "none"
    /\ rho = RC_RHO
    /\ current_task = 0
    /\ payoffs = [i \in Tasks |-> 0]
    /\ probs = NotCalled
    /\ rc_probs = NotCalled
    /\ select_ret = NotCalled
    /\ q = EnvStartQ
    /\ w = EnvStartW
    /\ env_call = NoCall
    /\ nu = 0
    /\ gamma_star = None
    /\ x_star = None
    /\ payoff_ret = [impl |-> "none"]
    /\ sup_status = "constructed"
    /\ sup_time = 0
    /\ last_broadcast_time = 0
    /\ experiment_config = [kind |-> "none"]
    /\ sup_x = NotCalled
    /\ emitted = <<>>
    /\ agent_rx = <<>>
    /\ agent_q = AgentStartQ
    /\ agent_x = AgentStartX
    /\ rx_drained = NothingDrained
    /\ current_patch = AgentId % NumTasks
    /\ target_patch = AgentId % NumTasks
    /\ robot_state = "FORAGING"
    /\ trash_collected = 0
    /\ agent_time = 0
    /\ last_revision_time = 0
    /\ next_revision_time = 1
    /\ agent_tx = <<>>
    /\ disabled = FALSE
    /\ agent_did = NoStep
    /\ returned_q = NotReturned
    /\ returned_w = NotReturned
    /\ dm_robot_id = AgentId
    /\ dm_current_task = None
    /\ dm_latest_q = None
    /\ dm_latest_x = None
    /\ dm_latest_w = None
    /\ dm_ret = NotCalled
    /\ robot_assignments = WsStartAssignments
    /\ ws_x = WsStartX
    /\ ws_rx = <<>>
    /\ ws_statuses = 0
    /\ cons_ret = NotCalled
    /\ wire_msg = None
    /\ wire_bytes = None
    /\ wire_back = NotCalled
    /\ rng = RngStart
    /\ run_time = 0
    /\ run_a = RunStart(RngStart)
    /\ run_b = RunStart(RngStart)
    /\ mesa_task = MesaStartTasks
    /\ mesa_x = update_population_distribution(MesaStartTasks)
    /\ mesa_q = MesaStartQ
    /\ mesa_report = NotCalled
    /\ ws_q = [i \in Tasks |-> 0]
    /\ ws_trash = [i \in Tasks |-> 0]
    /\ ws_last = NotCalled
    /\ fsm = FsmStart
    /\ fsm_last = NotCalled

\* two runs from the same state, given the same draws
InitTwoRuns ==
    /\ robot_tasks = InitRobotTasks
    /\ robot_active = InitRobotActive
    /\ rx_queue = <<>>
    /\ drained_dup = FALSE
    /\ next_tick_time = generate_next_tick(0, 1)
    /\ total_ticks = 0
    /\ current_time = 0
    /\ tick_ret = "none"
    /\ rho = RC_RHO
    /\ current_task = 0
    /\ payoffs = [i \in Tasks |-> 0]
    /\ probs = NotCalled
    /\ rc_probs = NotCalled
    /\ select_ret = NotCalled
    /\ q = EnvStartQ
    /\ w = EnvStartW
    /\ env_call = NoCall
    /\ nu = 0
    /\ gamma_star = None
    /\ x_star = None
    /\ payoff_ret = [impl |-> "none"]
    /\ sup_status = "constructed"
    /\ sup_time = 0
    /\ last_broadcast_time = 0
    /\ experiment_config = [kind |-> "none"]
    /\ sup_x = NotCalled
    /\ emitted = <<>>
    /\ agent_rx = <<>>
    /\ agent_q = AgentStartQ
    /\ agent_x = AgentStartX
    /\ rx_drained = NothingDrained
    /\ current_patch = AgentId % NumTasks
    /\ target_patch = AgentId % NumTasks
    /\ robot_state = "FORAGING"
    /\ trash_collected = 0
    /\ agent_time = 0
    /\ last_revision_time = 0
    /\ next_revision_time = 1
    /\ agent_tx = <<>>
    /\ disabled = FALSE
    /\ agent_did = NoStep
    /\ returned_q = NotReturned
    /\ returned_w = NotReturned
    /\ dm_robot_id = AgentId
    /\ dm_current_task = None
    /\ dm_latest_q = None
    /\ dm_latest_x = None
    /\ dm_latest_w = None
    /\ dm_ret = NotCalled
    /\ robot_assignments = WsStartAssignments
    /\ ws_x = WsStartX
    /\ ws_rx = <<>>
    /\ ws_statuses = 0
    /\ cons_ret = NotCalled
    /\ wire_msg = None
    /\ wire_bytes = None
    /\ wire_back = NotCalled
    /\ rng \in DrawStreams
    /\ run_time = 0
    /\ run_a = RunStart(rng)
    /\ run_b = RunStart(rng)
    /\ mesa_task = MesaStartTasks
    /\ mesa_x = update_population_distribution(MesaStartTasks)
    /\ mesa_q = MesaStartQ
    /\ mesa_report = NotCalled
    /\ ws_q = [i \in Tasks |-> 0]
    /\ ws_trash = [i \in Tasks |-> 0]
    /\ ws_last = NotCalled
    /\ fsm = FsmStart
    /\ fsm_last = NotCalled

InitFsm ==
    /\ robot_tasks = InitRobotTasks
    /\ robot_active = InitRobotActive
    /\ rx_queue = <<>>
    /\ drained_dup = FALSE
    /\ next_tick_time = generate_next_tick(0, 1)
    /\ total_ticks = 0
    /\ current_time = 0
    /\ tick_ret = "none"
    /\ rho = RC_RHO
    /\ current_task = 0
    /\ payoffs = [i \in Tasks |-> 0]
    /\ probs = NotCalled
    /\ rc_probs = NotCalled
    /\ select_ret = NotCalled
    /\ q = EnvStartQ
    /\ w = EnvStartW
    /\ env_call = NoCall
    /\ nu = 0
    /\ gamma_star = None
    /\ x_star = None
    /\ payoff_ret = [impl |-> "none"]
    /\ sup_status = "constructed"
    /\ sup_time = 0
    /\ last_broadcast_time = 0
    /\ experiment_config = [kind |-> "none"]
    /\ sup_x = NotCalled
    /\ emitted = <<>>
    /\ agent_rx = <<>>
    /\ agent_q = AgentStartQ
    /\ agent_x = AgentStartX
    /\ rx_drained = NothingDrained
    /\ current_patch = AgentId % NumTasks
    /\ target_patch = AgentId % NumTasks
    /\ robot_state = "FORAGING"
    /\ trash_collected = 0
    /\ agent_time = 0
    /\ last_revision_time = 0
    /\ next_revision_time = 1
    /\ agent_tx = <<>>
    /\ disabled = FALSE
    /\ agent_did = NoStep
    /\ returned_q = NotReturned
    /\ returned_w = NotReturned
    /\ dm_robot_id = AgentId
    /\ dm_current_task = None
    /\ dm_latest_q = None
    /\ dm_latest_x = None
    /\ dm_latest_w = None
    /\ dm_ret = NotCalled
    /\ robot_assignments = WsStartAssignments
    /\ ws_x = WsStartX
    /\ ws_rx = <<>>
    /\ ws_statuses = 0
    /\ cons_ret = NotCalled
    /\ wire_msg = None
    /\ wire_bytes = None
    /\ wire_back = NotCalled
    /\ rng = RngStart
    /\ run_time = 0
    /\ run_a = RunStart(RngStart)
    /\ run_b = RunStart(RngStart)
    /\ mesa_task = MesaStartTasks
    /\ mesa_x = update_population_distribution(MesaStartTasks)
    /\ mesa_q = MesaStartQ
    /\ mesa_report = NotCalled
    /\ ws_q = [i \in Tasks |-> 0]
    /\ ws_trash = [i \in Tasks |-> 0]
    /\ ws_last = NotCalled
    /\ fsm = FsmStart
    /\ fsm_last = NotCalled

SpecState    == InitState /\ [][SMNext]_vars
SpecClock    == InitClock /\ [][ClockNext]_vars
SpecRevision == InitRevision /\ [][RevisionNext]_vars
SpecEnv      == InitEnv /\ [][EnvNext]_vars
SpecPayoff   == InitPayoff /\ [][PayoffNext]_vars
SpecSupervisor == InitSupervisor /\ [][SupervisorNext]_vars
SpecIntake   == InitIntake /\ [][IntakeNext]_vars
SpecReceive  == InitReceive /\ [][ReceiveNext]_vars
SpecAgent    == InitAgent /\ [][AgentNext]_vars
SpecSnapshot == InitSnapshot /\ [][SnapshotNext]_vars
SpecDecision == InitDecision /\ [][DecisionNext]_vars
SpecWebots   == InitWebots /\ [][WebotsNext]_vars
SpecConsumption == InitConsumption /\ [][ConsumptionNext]_vars
SpecAllPayoffs == InitPayoff /\ [][AllPayoffsNext]_vars
SpecWire == InitWire /\ [][WireNext]_vars
SpecTwoRuns == InitTwoRuns /\ [][TwoRunsNext]_vars
SpecMesa == InitMesa /\ [][MesaNext]_vars
SpecDecisionCalls == InitDecision /\ [][DecisionCallsNext]_vars
SpecFsm == InitFsm /\ [][FsmNext]_vars
SpecTrash == InitWebots /\ [][TrashNext]_vars
\* the run loop calls simulate_collection in every pass
SpecCollect ==
    InitWebots /\ [][CollectNext]_vars /\ WF_vars(SimulateCollection)
\* the run loop keeps running; a robot that is again and again in TRANSITION
\* gets to its target, and an avoidance episode ends
SpecTransit ==
    /\ InitAgent /\ [][TransitNext]_vars
    /\ WF_vars(RobotRunForever)
    /\ SF_vars(Arrives)
    /\ SF_vars(AvoidanceEnds)
Spec == SpecState

(***************************************************************************)
(* Properties of the state manager and the report drain                    *)
(***************************************************************************)
ActiveRobots(active) == {r \in Robots : active[r]}

\* positions of the task changes of known robot r in a queue
ReportsOf(queue, r) ==
    {i \in 1 .. Len(queue) :
        queue[i].type = "task_change" /\ queue[i].robot_id = r}

\* new_task of the last task change of r in the queue
LastNewTask(queue, r) ==
    LET last == CHOOSE i \in ReportsOf(queue, r) :
                    \A j \in ReportsOf(queue, r) : j <= i
    IN  queue[last].new_task

\* the population state counts every active robot under its stored task, and
\* an inactive robot under none: count k is the number of active robots whose
\* stored task is k
CountsStoredTasks(tasks, active) ==
    LET x == get_population_state(tasks, active)
    IN  ActiveRobots(active) # {} =>
            \A k \in Tasks :
                x.num[k] = Cardinality({s \in ActiveRobots(active) : tasks[s] = k})

C2_ReportCountsFromDrainOn ==
    /\ []CountsStoredTasks(robot_tasks, robot_active)
    /\ [][ \A r \in Robots :
             robot_tasks'[r] =
                IF Len(rx_queue') < Len(rx_queue) /\ ReportsOf(rx_queue, r) # {}
                THEN LastNewTask(rx_queue, r)
                ELSE robot_tasks[r]
         ]_vars

\* C2 witness: r was moved by a drained report, was then deactivated, and a
\* newer report of r for another task is still waiting in the queue
C2_Witness ==
    \E r \in Robots :
        /\ robot_tasks[r] # InitRobotTasks[r]
        /\ ~robot_active[r]
        /\ ReportsOf(rx_queue, r) # {}
        /\ LastNewTask(rx_queue, r) # robot_tasks[r]

\* C3: one call of process_robot_messages reads every waiting packet and
\* leaves the queue empty; afterwards a robot with a report in the queue has
\* the new_task of its last report (arrival order, last write wins) and a
\* robot without one keeps its task.
C3_DrainAppliesAllInOrder ==
    [][ Len(rx_queue') < Len(rx_queue) =>
          /\ rx_queue' = <<>>
          /\ \A r \in Robots :
                robot_tasks'[r] =
                    IF ReportsOf(rx_queue, r) # {}
                    THEN LastNewTask(rx_queue, r)
                    ELSE robot_tasks[r]
      ]_vars

\* C3 witness: the last drain read two reports of one robot, the queue is
\* empty and some robot is on a task it did not start with
C3_Witness ==
    /\ drained_dup
    /\ rx_queue = <<>>
    /\ \E r \in Robots : robot_tasks[r] # InitRobotTasks[r]

(***************************************************************************)
(* Properties of the Poisson clock                                         *)
(***************************************************************************)
\* C4: after should_tick(t) returned true the clock is rescheduled forward
\* from the poll time, next_tick_time > t, so that a repeated should_tick(t)
\* returns false however late the poll was.
C4_OneTickPerPoll ==
    tick_ret = "True" => next_tick_time > current_time

(***************************************************************************)
(* Properties of the revision protocol                                     *)
(***************************************************************************)
\* [payoff_j - payoff_current]_+ as the protocol defines it
Gain(cur, pay, j) == IF pay[j] > pay[cur] THEN pay[j] - pay[cur] ELSE 0

\* sum over all j of the gains
TotalGain(cur, pay) == SumTo([j \in Tasks |-> Gain(cur, pay, j)], NumTasks)

\* rate * sum of the gains is at most 1: the stay probability is not negative
StayNotNegative(rate, cur, pay) == rate.num * TotalGain(cur, pay) <= rate.den

\* out.num[j] / out.den = rate * gain_j
IsRateTimesGain(out, rate, cur, pay, j) ==
    out.num[j] * rate.den = rate.num * Gain(cur, pay, j) * out.den

\* a revision step that fails fast on a negative stay probability and
\* otherwise switches to j with probability exactly rate * gain_j
FailsFastOrExact(out, rate, cur, pay) ==
    out.status # "none" =>
        IF StayNotNegative(rate, cur, pay)
        THEN /\ out.status = "ok"
             /\ \A j \in Tasks \ {cur} : IsRateTimesGain(out, rate, cur, pay, j)
        ELSE out.status = "AssertionError"

\* C5: a negative stay probability makes the revision step fail with an
\* error, and the switch probabilities are never clamped or divided by their
\* total: for rho * sum <= 1 the probability of switching to j is exactly
\* rho * max(0, payoff_j - payoff_current).  Stated of both revision steps,
\* RevisionProtocol.compute_switch_probabilities and
\* RobotController.revision_protocol.
C5_FailFastNeverRenormalised ==
    /\ FailsFastOrExact(probs, rho, current_task, payoffs)
    /\ FailsFastOrExact(rc_probs, RC_RHO, current_task, payoffs)

\* C6: compute_switch_probabilities returns p_j = rho * max(0, payoff_j -
\* payoff_current) for j # current and p_current = 1 - the sum of the others;
\* with payoffs [5, 1] (0 for any further task), rho = 1/10 and current task
\* 1 the result is [0.4, 0.6].
C6_SwitchProbabilities ==
    (probs.status # "none" /\ StayNotNegative(rho, current_task, payoffs)) =>
        /\ probs.status = "ok"
        /\ \A j \in Tasks \ {current_task} :
                IsRateTimesGain(probs, rho, current_task, payoffs, j)
        /\ probs.num[current_task] =
                probs.den - SumTo([j \in Tasks |->
                                      IF j = current_task THEN 0 ELSE probs.num[j]],
                                  NumTasks)
        /\ (/\ rho = [num |-> 1, den |-> 10]
            /\ current_task = 1
            /\ payoffs = [j \in Tasks |-> IF j = 0 THEN 5 ELSE IF j = 1 THEN 1 ELSE 0])
           => /\ probs.num[0] * 10 = 4 * probs.den
              /\ probs.num[1] * 10 = 6 * probs.den

\* C6 witness: the scenario has been computed
C6_Witness ==
    /\ probs.status = "ok"
    /\ rho = [num |-> 1, den |-> 10]
    /\ current_task = 1
    /\ payoffs[0] = 5 /\ payoffs[1] = 1

\* C7: whenever rho * sum_j max(0, payoff_j - payoff_current) <= 1, the
\* vector compute_switch_probabilities returns has no negative entry and
\* sums to 1.
C7_ValidDistribution ==
    (probs.status # "none" /\ StayNotNegative(rho, current_task, payoffs)) =>
        /\ probs.status = "ok"
        /\ probs.den > 0
        /\ \A j \in Tasks : probs.num[j] >= 0
        /\ SumTo(probs.num, NumTasks) = probs.den

\* C7 witness: a returned vector with a better task (probability > 0) and a
\* stay probability of exactly 0 (rho * sum = 1)
C7_Witness ==
    /\ probs.status = "ok"
    /\ probs.num[current_task] = 0
    /\ \E j \in Tasks : payoffs[j] > payoffs[current_task] /\ probs.num[j] > 0

(***************************************************************************)
(* Properties of the environment model                                     *)
(***************************************************************************)
\* C8: after any sequence of update and set_growth_rate calls, with any
\* rates, every resource level is >= 0.
C8_ResourcesNeverNegative ==
    \A i \in Tasks : q[i] >= 0

\* C8 witness: an update with dt > 0 whose Euler step fell below 0 under a
\* negative growth rate
C8_Witness ==
    /\ env_call.op = "update"
    /\ env_call.dt > 0
    /\ env_call.below_zero
    /\ \E i \in Tasks : w[i] < 0 /\ q[i] = 0

\* C9: update(x, dt) with dt <= 0 is rejected with an error and leaves q
\* unchanged.
C9_NonPositiveDtRejected ==
    /\ []((env_call.op = "update" /\ env_call.dt <= 0) => env_call.raised)
    /\ [][ (env_call'.op = "update" /\ env_call'.dt <= 0) => q' = q ]_vars

(***************************************************************************)
(* Properties of the payoff mechanism                                      *)
(***************************************************************************)
\* C10: a payoff computed with nu # 0 before an equilibrium has been set
\* fails with an error, for every task: no value is returned.  Stated of
\* both payoff computations, PayoffMechanism.compute_payoff and
\* RobotController.payoff.
C10_ModelBasedNeedsEquilibrium ==
    (payoff_ret.impl # "none" /\ payoff_ret.nu # 0 /\ ~payoff_ret.equilibrium)
        => payoff_ret.ret.status = "ValueError"

(***************************************************************************)
(* Properties of the supervisor loop                                       *)
(***************************************************************************)
\* a step that is one pass of the loop body of run, run still going after it
LoopPass == sup_time' # sup_time /\ sup_status' = "running"

\* the state broadcasts among the packets of the last step
StateBroadcasts(sent) == {i \in DOMAIN sent : sent[i].type = "state_update"}

\* x is the population state of these assignments and flags: every active
\* robot counted under its task, over the number of active robots, and the
\* uniform vector when none is active
IsPopulationOf(x, tasks, active) ==
    /\ x.status = "ok"
    /\ IF ActiveRobots(active) = {}
       THEN \A k \in Tasks : x.num[k] * NumTasks = x.den
       ELSE /\ x.den = Cardinality(ActiveRobots(active))
            /\ \A k \in Tasks :
                 x.num[k] = Cardinality({s \in ActiveRobots(active) : tasks[s] = k})

\* C11: a pass of the supervisor loop drains the waiting reports, then reads
\* x, then integrates with that x, then broadcasts if due.  So after a pass:
\* the queue is empty, every robot with a waiting report has that report's
\* task, the x handed to env_model.update is the population state of the
\* assignments after the drain (with the flags the pass's events left), the
\* integration used that x (a task that x counts no robot on is not consumed,
\* its level only moves by its growth rate), and a state broadcast of the
\* pass carries the levels after the integration and that same x.
C11_DrainThenXThenUpdate ==
    [][ LoopPass =>
          /\ rx_queue' = <<>>
          /\ \A r \in Robots :
                robot_tasks'[r] =
                    IF ReportsOf(rx_queue, r) # {}
                    THEN LastNewTask(rx_queue, r)
                    ELSE robot_tasks[r]
          /\ IsPopulationOf(sup_x', robot_tasks', robot_active')
          /\ \A i \in Tasks :
                sup_x'.num[i] = 0 => q'[i] = (IF q[i] + w'[i] > 0 THEN 1 ELSE 0)
          /\ \A i \in StateBroadcasts(emitted') :
                emitted'[i].q = q' /\ emitted'[i].x = sup_x'
      ]_vars

\* C11 witness: the first pass drained a report that moved a robot, and the
\* x it integrated with counts that robot under its new task
C11_Witness ==
    /\ sup_status = "running"
    /\ sup_time = SupDt
    /\ rx_queue = <<>>
    /\ \E r \in Robots :
          /\ robot_tasks[r] # InitRobotTasks[r]
          /\ robot_active[r]
          /\ sup_x.num[robot_tasks[r]] > 0
          /\ sup_x.num[InitRobotTasks[r]] = 0

C13_BroadcastNeverStale ==
    [][ sup_time' # sup_time =>
          sup_time' - last_broadcast_time <= BroadcastInterval ]_vars

\* the positions of a queue that hold a packet of the expected length
WellFormedAt(queue) ==
    {i \in DOMAIN queue : Len(GetFloats(queue[i])) = ExpectedFloats}

\* a call of receive_state_info on a queue that is not empty
DrainStep == agent_rx # <<>> /\ Len(agent_rx') < Len(agent_rx)

\* C14: when the receive queue holds state broadcasts, receive_state_info
\* empties the queue and the cached q and x are afterwards exactly the q and
\* the x fields of the last broadcast of the queue, whatever the earlier
\* broadcasts carried.
C14_LastBroadcastWins ==
    [][DrainStep /\ WellFormedAt(agent_rx) # {} =>
         LET n == CHOOSE i \in WellFormedAt(agent_rx) :
                      \A j \in WellFormedAt(agent_rx) : j <= i
             floats == GetFloats(agent_rx[n])
         IN  /\ agent_rx' = <<>>
             /\ agent_q' = [i \in Tasks |-> floats[i + 1]]
             /\ agent_x' = [i \in Tasks |-> floats[NumTasks + i + 1]]]_vars

\* two broadcasts were drained in one call and the cached state is no longer
\* the constructor's
C14_Witness ==
    /\ rx_drained.taken >= 2
    /\ agent_rx = <<>>
    /\ agent_q # AgentStartQ
    /\ agent_x # AgentStartX

\* C15: a packet whose length is not that of a state broadcast is rejected:
\* a call of receive_state_info on a queue of such packets leaves the cached
\* q and x exactly as they were and consumes every packet.
C15_WrongLengthRejected ==
    [][DrainStep /\ WellFormedAt(agent_rx) = {} =>
         /\ agent_q' = agent_q
         /\ agent_x' = agent_x
         /\ agent_rx' = <<>>]_vars

\* a call has rejected packets and taken none, and the cached state is still
\* the one an earlier broadcast brought
C15_Witness ==
    /\ rx_drained.rejected >= 1
    /\ rx_drained.taken = 0
    /\ agent_rx = <<>>
    /\ agent_q # AgentStartQ

\* the packet send_status gives to the emitter in the next pass of the loop
NextStatus == StatusFloats(AgentId, current_patch, trash_collected)

\* C17: when a revision selects a patch other than the agent's current one,
\* the agent's current patch is the selected patch as soon as the revision
\* step has returned, and it is the patch the agent then reports.
C17_RevisionCommitsAtOnce ==
    agent_did.due /\ agent_did.selected # agent_did.before
        => /\ current_patch = agent_did.selected
           /\ NextStatus.floats[2] = agent_did.selected

\* C18: while the agent is disabled its revision clock is not consulted, it
\* makes no revision and it sends no report.
C18_InactiveAgentIsSilent ==
    agent_did.inactive => ~agent_did.due /\ ~agent_did.sent

\* C16: a report that is malformed, or whose new task is outside
\* 0 .. NumTasks-1, is rejected: the stored assignments stay tasks of the
\* system, the supervisor keeps running, and get_population_state returns a
\* distribution.
C16_BadReportRejected ==
    /\ sup_status \in {"constructed", "running"}
    /\ \A r \in Robots : robot_tasks[r] \in Tasks
    /\ get_population_state(robot_tasks, robot_active).status = "ok"

\* the robots whose flag a step changes
Toggled == {r \in Robots : robot_active'[r] # robot_active[r]}

\* C19: set_robot_active changes no stored assignment and one robot's flag;
\* setting the flag back gives the population state of before the call.
C19_SetActiveKeepsTasks ==
    [][robot_active' # robot_active =>
         /\ robot_tasks' = robot_tasks
         /\ Cardinality(Toggled) = 1
         /\ \A r \in Toggled :
              get_population_state(robot_tasks',
                                   set_robot_active(robot_active', r, robot_active[r]))
                  = get_population_state(robot_tasks, robot_active)]_vars

\* an inactive robot still holds an assignment that a report gave it
C19_Witness ==
    \E r \in Robots : ~robot_active[r] /\ robot_tasks[r] # InitRobotTasks[r]

\* C20: with no active robot get_population_state returns 1 / NumTasks for
\* every task, whatever the stored assignments, and does not raise.
C20_NoActiveRobotUniform ==
    (\A r \in Robots : ~robot_active[r]) =>
        LET x == get_population_state(robot_tasks, robot_active)
        IN  /\ x.status = "ok"
            /\ \A k \in Tasks : x.num[k] * NumTasks = x.den

\* every robot is inactive and the stored assignments are not the initial ones
C20_Witness ==
    /\ \A r \in Robots : ~robot_active[r]
    /\ robot_tasks # InitRobotTasks

\* C23: should_tick(t) returns True exactly when t >= next_tick_time at the
\* call; on False next_tick_time and total_ticks are unchanged; on True
\* next_tick_time has grown by one sampled inter-arrival and total_ticks by 1.
C23_ShouldTickContract ==
    [][tick_ret' # "none" =>
         /\ (tick_ret' = "True") <=> (current_time >= next_tick_time)
         /\ tick_ret' = "False" =>
                next_tick_time' = next_tick_time /\ total_ticks' = total_ticks
         /\ tick_ret' = "True" =>
                /\ (next_tick_time' - next_tick_time) \in InterArrivals
                /\ total_ticks' = total_ticks + 1]_vars

\* a poll returned True for the second time, long after the scheduled tick
C23_Witness ==
    /\ tick_ret = "True"
    /\ total_ticks >= 2
    /\ current_time > next_tick_time

\* C24: over should_tick and reset calls made with non-decreasing times,
\* next_tick_time never decreases.
C24_NextTickNeverDecreases ==
    [][next_tick_time' >= next_tick_time]_vars

\* C25: select_task returns the current task or a task of strictly greater
\* payoff, and the current task when no payoff is greater (all payoffs equal
\* included); so does the draw of RobotController.revision_protocol.
C25_SelectsOnlyBetterTasks ==
    select_ret.status = "ok" =>
        /\ \/ select_ret.task = current_task
           \/ payoffs[select_ret.task] > payoffs[current_task]
        /\ (\A j \in Tasks : payoffs[j] <= payoffs[current_task])
               => select_ret.task = current_task

\* select_task has returned another task than the current one
C25_Witness ==
    /\ select_ret.status = "ok"
    /\ select_ret.impl = "RevisionProtocol"
    /\ select_ret.task # current_task

\* C21: from construction on the agent's current task is a task of the
\* system, never undefined, and no revision is an initialisation.
C21_TaskAlwaysDefined ==
    /\ dm_current_task # None
    /\ dm_current_task[1] \in Tasks
    /\ dm_ret.status # "none" => dm_ret.kind # "initialize"

\* the robots per task when robot i works on task i % NumTasks
TrueStartCounts ==
    [k \in Tasks |-> Cardinality({r \in Robots : r % NumTasks = k})]

\* C22: before any report is processed the supervisor's stored assignment of
\* every robot is robot_id % NumTasks, and the distribution computed from
\* the stored assignments is the robots' own initial distribution.
C22_StoredStartMatchesAgents ==
    ws_statuses = 0 =>
        /\ \A r \in Robots : robot_assignments[r] = r % NumTasks
        /\ update_distribution(robot_assignments).num = TrueStartCounts

\* C26: update(x, dt) leaves every q_i at max(0, q_i + (w_i - F_i) * dt) with
\* F_i the consumption at the level before the step (0 when that level is 0)
\* and w the rates at the call, and it leaves w unchanged.
C26_EulerStepClamped ==
    [][env_call'.op = "update" =>
         /\ w' = w
         /\ \A i \in Tasks :
              \E f \in RateRange(q[i]) :
                  q'[i] = Max2(0, q[i] + (w[i] - f) * env_call'.dt)]_vars

\* an update with dt = 1 has left a positive level
C26_Witness ==
    /\ env_call.op = "update"
    /\ env_call.dt = 1
    /\ \E i \in Tasks : q[i] > 0

\* C27: set_growth_rate(i, rate) changes w_i only, to rate; q and the other
\* rates are unchanged; an update that follows uses rate for task i.
C27_SetGrowthRateFrame ==
    [][/\ env_call'.op = "set_growth_rate" =>
            /\ q' = q
            /\ w'[env_call'.task_id] = env_call'.new_rate
            /\ \A j \in Tasks : j # env_call'.task_id => w'[j] = w[j]
       /\ (env_call.op = "set_growth_rate" /\ env_call'.op = "update") =>
            LET i == env_call.task_id
            IN  \E f \in RateRange(q[i]) :
                    q'[i] = Max2(0, q[i] + (env_call.new_rate - f) * env_call'.dt)
      ]_vars

\* a rate was changed and an update has run with it
C27_Witness ==
    /\ env_call.op = "update"
    /\ w # EnvStartW
    /\ q # EnvStartQ

\* a returned list's content differs between the two states of a step
ListChanged(before, after) ==
    before.held /\ after.held /\ after.value # before.value

\* C28: the lists get_resources and get_growth_rates return are copies: no
\* step changes both a returned list and the model's array, so a write to a
\* returned list leaves q and w alone and an update or set_growth_rate
\* leaves the lists returned earlier alone.
C28_ReturnedListsAreCopies ==
    [][/\ ListChanged(returned_q, returned_q') => q' = q
       /\ ListChanged(returned_w, returned_w') => w' = w]_vars

\* both lists are held, an update was the last call on the model, and neither
\* list shows the model's present q and w
C28_Witness ==
    /\ returned_q.held /\ returned_q.value # q
    /\ returned_w.held /\ returned_w.value # w
    /\ env_call.op = "update"

\* C29: with nu = 0, compute_all_payoffs(q, x, w) returns q, for every x and
\* w, with or without an equilibrium.
C29_ModelFreePayoffIsQ ==
    (payoff_ret.impl = "compute_all_payoffs" /\ payoff_ret.nu = 0) =>
        /\ payoff_ret.ret.status = "ok"
        /\ payoff_ret.ret.value = payoff_ret.q

\* the model-free payoffs of a state with resources, an equilibrium being set
C29_Witness ==
    /\ payoff_ret.impl = "compute_all_payoffs"
    /\ payoff_ret.nu = 0
    /\ payoff_ret.equilibrium
    /\ \E i \in Tasks : payoff_ret.q[i] > 0

\* C30: every consumption function of the repository returns 0 when
\* x_i <= 0, for every q_i.
C30_NoShareNoConsumption ==
    (cons_ret # NotCalled /\ cons_ret.x_i <= 0) => cons_ret.ret.zero


\* C31: for every state broadcast and every task-change report m,
\* from_bytes(to_bytes(m)) is a message of the same type with the same data
\* fields and values.
C31_RoundTrip ==
    (wire_back # NotCalled /\ wire_msg[1].type \in {"STATE_UPDATE", "TASK_CHANGE"})
        => /\ wire_back.status = "ok"
           /\ wire_back.msg.type = wire_msg[1].type
           /\ DOMAIN wire_back.msg.data = DOMAIN wire_msg[1].data
           /\ \A k \in DOMAIN wire_msg[1].data :
                 wire_back.msg.data[k] = wire_msg[1].data[k]

\* a state broadcast with a float time and different q and x has been
\* through to_bytes and from_bytes
C31_Witness ==
    /\ wire_back # NotCalled
    /\ wire_msg[1].type = "STATE_UPDATE"
    /\ wire_msg[1].data.time = PyFloat(MaxTime)
    /\ wire_msg[1].data.q # wire_msg[1].data.x


C33_DistributionSumsToOne == SumTo(ws_x.num, NumTasks) = ws_x.den


\* C34: once a revision has made a patch the target (state TRANSITION), the
\* robot eventually has that patch as current_patch, a collision-avoidance
\* episode on the way included.
C34_TransitionEventuallyCommits ==
    \A k \in Tasks :
        (robot_state = "TRANSITION" /\ target_patch = k) ~> (current_patch = k)


\* C35: when report_task_change(robot_id, old_task, new_task) returns, the
\* model's x counts the reporting agent under new_task.
C35_ReportCountsNewTask ==
    mesa_report # NotCalled =>
        mesa_report.x =
            update_population_distribution(
                [mesa_report.seen EXCEPT ![mesa_report.robot_id] = mesa_report.new_task])


\* C36: whenever a patch has x_i > 0 and a tracked trash object, repeated
\* simulate_collection calls eventually remove an object from that patch
\* (R = 3.44, step 64 ms).
C36_CollectionEventuallyRemoves ==
    \A i \in Tasks :
        (ws_x.num[i] > 0 /\ ws_trash[i] > 0)
            ~> (ws_last # NotCalled /\ ws_last.op = "simulate_collection"
                    /\ ws_last.removed[i] > 0)

\* C37: in every state reached through spawn_trash and remove_trash_objects,
\* q[i] is the number of tracked trash objects of patch i and is not negative.
C37_VolumeIsObjectCount ==
    \A i \in Tasks : ws_q[i] = ws_trash[i] /\ ws_q[i] >= 0

\* objects were spawned in a patch up to the bound and a removal has taken
\* some but not all of them
C37_Witness ==
    /\ ws_last # NotCalled
    /\ ws_last.op = "remove_trash_objects"
    /\ \E i \in Tasks : ws_last.removed[i] > 0 /\ ws_trash[i] > 0


\* C38: under every interleaving of update and set_task, basket_count never
\* exceeds BASKET_CAPACITY, and the state is OBJECT_PICKUP only with
\* basket_count < BASKET_CAPACITY.
C38_BasketWithinCapacity ==
    /\ fsm.basket_count <= BASKET_CAPACITY
    /\ fsm.state = "OBJECT_PICKUP" => fsm.basket_count < BASKET_CAPACITY

\* the pickup that fills the basket has just been made, on a machine whose
\* task has been set
C38_Witness ==
    /\ fsm_last # NotCalled
    /\ fsm_last.op = "update"
    /\ fsm_last.from = "OBJECT_PICKUP"
    /\ fsm.basket_count = BASKET_CAPACITY
    /\ fsm.current_task # None


\* C39: revise_task called while no state is cached returns None and leaves
\* current_task as it was: no task is chosen, nothing is there to report.
C39_NoDecisionBeforeState ==
    [][(ReviseTask /\ (dm_latest_q = None \/ dm_latest_x = None))
          => /\ dm_ret'.status = "ok"
             /\ dm_ret'.ret = None
             /\ dm_current_task' = dm_current_task]_vars

\* revise_task has been called on a decision maker that holds a task and no
\* state
C39_Witness ==
    /\ dm_ret.status = "ok"
    /\ dm_ret.op = "revise_task"
    /\ dm_latest_q = None
    /\ dm_latest_x = None
    /\ dm_current_task # None

====
